---------------------------- MODULE Spec2Model ----------------------------
(***************************************************************************)
(* A model of the Formik form-state controller (src/src/Formik.tsx): the   *)
(* FormState slots, the field registry, the validation pipeline            *)
(* (field-level, schema-level and form-level sources, merged by            *)
(* deepmerge) and the operations that drive it.                            *)
(*                                                                         *)
(* Encoding of JavaScript values.  A value is a record [k, v]: k is the    *)
(* kind ("undef", "str", "bool", "obj", "arr") and v the payload (a string,*)
(* a boolean, a function from keys to values, a sequence of values).  A    *)
(* path is the sequence of its segments, i.e. what toPath returns for the  *)
(* dotted/bracketed string: "user.name" is <<"user", "name">>.             *)
(*                                                                         *)
(* this.setState is modelled as the write it requests.  Each handler is    *)
(* one action; the continuation of a promise is a separate action.  A run  *)
(* all of whose sources have settled completes (its .then callbacks run as *)
(* microtasks) before any further operation is accepted.                   *)
(***************************************************************************)
EXTENDS Integers, Sequences, FiniteSets, TLC

VARIABLES
    values,         \* state.values
    initialValues,  \* state.initialValues
    errors,         \* state.errors
    touched,        \* state.touched
    isValidating,   \* state.isValidating
    isSubmitting,   \* state.isSubmitting
    status,         \* state.status
    submitCount,    \* state.submitCount
    didMount,       \* this.didMount
    fields,         \* this.fields: registered path -> validator ("none": no validate fn)
    props,          \* this.props: the configuration of the <Formik/> element
    runs,           \* validation runs whose promise has not yet been resolved
    fieldRuns,      \* validateField calls whose continuation has not yet run
    onResets,       \* promises returned by props.onReset that have not yet settled
    bindings,       \* the <Field/> and <FastField/> components: their props while mounted
    hcCache,        \* this.hcCache: field name -> the change handler made for it
    hbCache,        \* this.hbCache: field name -> the blur handler made for it
    closures,       \* the number of handler closures created so far
    local,          \* this.state of the <FastField/>: its value and error
    rendered,       \* what the <FastField/> read from props.formik at its last render
    thens,          \* validator promises of the bindings whose callbacks have not yet run
    lastOp,         \* history: the operation the last step performed
    calls,          \* history: the callbacks the last step invoked, in order
    resetSnap       \* history: FormState after the first of the latest consecutive resets

vars == <<values, initialValues, errors, touched, isValidating, isSubmitting,
          status, submitCount, didMount, fields, props, runs, fieldRuns,
          onResets, bindings, hcCache, hbCache, closures, local, rendered,
          thens, lastOp, calls, resetSnap>>

\* The promises outside runValidations.
asyncVars == <<fieldRuns, onResets>>

\* The handler caches and the state of the bindings.
viewVars == <<hcCache, hbCache, closures, local, rendered, thens>>

formState == <<values, initialValues, errors, touched, isValidating,
               isSubmitting, status, submitCount>>

-----------------------------------------------------------------------------
(* Bounds of the model.                                                    *)

\* submitForm is not accepted once submitCount has reached this number.
MaxSubmitCount == 2
\* At most this many validation runs are pending at the same time.
MaxRuns == 2
\* A schema reports at most this many failures.
MaxFailures == 2

-----------------------------------------------------------------------------
(* JavaScript values.                                                      *)

Undef == [k |-> "undef", v |-> "undefined"]
Str(s) == [k |-> "str", v |-> s]
Bool(b) == [k |-> "bool", v |-> b]
Obj(m) == [k |-> "obj", v |-> m]
Arr(s) == [k |-> "arr", v |-> s]
EmptyObj == Obj(<<>>)
\* A number is held in hundredths: Num(150) is 1.5.  NaN is the number
\* that isNaN tells apart.
Num(n) == [k |-> "num", v |-> n]
NaN == [k |-> "nan", v |-> "NaN"]
isNaN(x) == x.k = "nan"

\* Object.keys(x).length === 0 for an object x
IsEmptyObj(x) == x.k = "obj" /\ DOMAIN x.v = {}

\* !!x
Truthy(x) ==
    CASE x.k = "undef" -> FALSE
      [] x.k = "str" -> x.v # ""
      [] x.k = "bool" -> x.v
      [] x.k = "num" -> x.v # 0
      [] x.k = "nan" -> FALSE
      [] OTHER -> TRUE

\* isObject(x): objects and arrays
isObject(x) == x.k \in {"obj", "arr"}

\* Path segments that are array indices, and the index each denotes.
IndexSegs == {"0", "1"}
IndexOf(seg) == IF seg = "0" THEN 0 ELSE 1

\* obj[key]: an own property of an object, an element of an array, else undefined
Prop(obj, key) ==
    CASE obj.k = "obj" -> IF key \in DOMAIN obj.v THEN obj.v[key] ELSE Undef
      [] obj.k = "arr" ->
            IF key \in IndexSegs /\ IndexOf(key) < Len(obj.v)
            THEN obj.v[IndexOf(key) + 1] ELSE Undef
      [] OTHER -> Undef

\* The keys of a container, as path segments.
Keys(obj) ==
    CASE obj.k = "obj" -> DOMAIN obj.v
      [] obj.k = "arr" -> {s \in IndexSegs : IndexOf(s) < Len(obj.v)}
      [] OTHER -> {}

\* A copy of obj with obj[key] = val; an array grows by undefined holes,
\* and a value that has no properties to copy (undefined, a promise)
\* gives a mapping with the one key.
SetProp(obj, key, val) ==
    IF obj.k = "arr"
    THEN LET i == IndexOf(key) + 1
             n == IF Len(obj.v) >= i THEN Len(obj.v) ELSE i
         IN Arr([j \in 1..n |-> IF j = i THEN val
                                 ELSE IF j <= Len(obj.v) THEN obj.v[j] ELSE Undef])
    ELSE IF obj.k = "obj" THEN Obj((key :> val) @@ obj.v)
    ELSE Obj(key :> val)

\* get(tree, path): the node at path, undefined when the path does not exist
RECURSIVE getIn(_, _)
getIn(obj, path) ==
    IF path = <<>> THEN obj
    ELSE getIn(Prop(obj, Head(path)), Tail(path))

\* set(tree, path, value): a copy of tree with value at path; a missing
\* intermediate node becomes a sequence when the next segment is an index
\* and a mapping otherwise.
RECURSIVE setIn(_, _, _)
setIn(obj, path, value) ==
    IF Len(path) = 1 THEN SetProp(obj, path[1], value)
    ELSE LET cur == Prop(obj, path[1])
             child == IF isObject(cur) THEN cur
                      ELSE IF path[2] \in IndexSegs THEN Arr(<<>>) ELSE EmptyObj
         IN SetProp(obj, path[1], setIn(child, Tail(path), value))

\* setNestedAllTrue(tree): the same shape with every leaf replaced by value
RECURSIVE setNestedObjectValues(_, _)
setNestedObjectValues(object, value) ==
    IF object.k = "obj"
    THEN Obj([key \in DOMAIN object.v |->
                IF isObject(object.v[key])
                THEN setNestedObjectValues(object.v[key], value) ELSE value])
    ELSE Arr([i \in 1..Len(object.v) |->
                IF isObject(object.v[i])
                THEN setNestedObjectValues(object.v[i], value) ELSE value])

\* The paths of the leaves (non-container nodes) of a tree.
RECURSIVE LeafPaths(_)
LeafPaths(tree) ==
    UNION {IF isObject(Prop(tree, key))
           THEN {<<key>> \o p : p \in LeafPaths(Prop(tree, key))}
           ELSE {<<key>>} : key \in Keys(tree)}

\* isEqual(a, b) of react-fast-compare: deep structural equality
isEqual(a, b) == a = b

-----------------------------------------------------------------------------
(* The merge of error trees.                                               *)

\* deepmerge(x, y): the union of two mappings, recursing into the keys both
\* have; anywhere else the later tree's node wins.
RECURSIVE deepmerge(_, _)
deepmerge(x, y) ==
    CASE x.k = "obj" /\ y.k = "obj" ->
            Obj([key \in DOMAIN x.v \cup DOMAIN y.v |->
                    IF key \notin DOMAIN y.v THEN x.v[key]
                    ELSE IF key \notin DOMAIN x.v THEN y.v[key]
                    ELSE deepmerge(x.v[key], y.v[key])])
      [] x.k = "arr" /\ y.k = "arr" ->
            Arr([i \in 1..(IF Len(x.v) > Len(y.v) THEN Len(x.v) ELSE Len(y.v)) |->
                    IF i > Len(y.v) THEN x.v[i]
                    ELSE IF i > Len(x.v) THEN y.v[i]
                    ELSE deepmerge(x.v[i], y.v[i])])
      [] OTHER -> y

\* deepmerge.all(list): the list folded from the left, starting from {}
RECURSIVE deepmergeAll(_)
deepmergeAll(list) ==
    IF list = <<>> THEN EmptyObj
    ELSE deepmerge(deepmergeAll(SubSeq(list, 1, Len(list) - 1)), list[Len(list)])

-----------------------------------------------------------------------------
(* Validators: the functions and the schema the application supplies.      *)
(* A validator is [t, out]: "none" (not supplied), "const" (its outcome is *)
(* out whatever it is given) or "required" (its outcome is out when the    *)
(* value it looks at is empty or missing, and valid otherwise).  An        *)
(* outcome is [kind, val]: the call returns val, throws val, or returns a  *)
(* promise that later resolves with val or rejects with val.               *)

Outcome(kind, val) == [kind |-> kind, val |-> val]
NoValidator == [t |-> "none", out |-> Outcome("return", Undef)]
Const(out) == [t |-> "const", out |-> out]
Required(out) == [t |-> "required", out |-> out]

IsAsync(out) == out.kind \in {"resolve", "reject"}

\* What a valid value gives with a validator that fails with out.
ValidOutcome(out) ==
    IF IsAsync(out) THEN Outcome("resolve", Undef) ELSE Outcome("return", Undef)

IsBlank(value) == value = Undef \/ value = Str("")

\* validate(value) of a field validator, and validate(values) of the
\* form-level validator, which looks at values.name
ValidatorOutcome(validator, value) ==
    IF validator.t = "required" /\ ~IsBlank(value)
    THEN ValidOutcome(validator.out) ELSE validator.out

FormValidatorOutcome(validator, vals) ==
    ValidatorOutcome(validator, getIn(vals, <<"name">>))

\* A schema is [t, inner]: inner is the list of {path, message} failures it
\* reports ("const": always; "required": when name is undefined in the data
\* it is given).  An empty list of failures is a schema that passes.
NoSchema == [t |-> "none", inner |-> <<>>]
ConstSchema(inner) == [t |-> "const", inner |-> inner]
\* validationSchema given as a function that returns ConstSchema(inner)
SchemaFactory(inner) == [t |-> "factory", inner |-> inner]
RequiredSchema(inner) == [t |-> "required", inner |-> inner]
Failure(path, message) == [path |-> path, message |-> message]

SchemaFailures(schema, validateData) ==
    IF schema.t = "required" /\ Prop(validateData, "name") # Undef
    THEN <<>> ELSE schema.inner

-----------------------------------------------------------------------------
(* The validation pipeline.                                                *)

\* errors[err.path]: the property of errors whose key is the whole path
\* string.  The keys of a tree built by setIn are single segments, so a
\* path of several segments names no key.
RawProp(obj, path) == IF Len(path) = 1 THEN Prop(obj, path[1]) ELSE Undef

\* yupToFormErrors(yupError), yupError.inner being the list of failures
RECURSIVE yupToFormErrors(_)
yupToFormErrors(inner) ==
    IF inner = <<>> THEN EmptyObj
    ELSE LET errs == yupToFormErrors(SubSeq(inner, 1, Len(inner) - 1))
             err == inner[Len(inner)]
         IN IF ~Truthy(RawProp(errs, err.path))
            THEN setIn(errs, err.path, Str(err.message))
            ELSE errs

\* validateYupSchema: the data handed to the schema, in which the empty
\* strings of the top level are replaced by undefined
validateData(vals) ==
    Obj([key \in DOMAIN vals.v |->
            IF vals.v[key] # Str("") THEN vals.v[key] ELSE Undef])

\* The registered paths in the order Object.keys lists them.  The paths of
\* the model do not overlap, so the order does not change any result and a
\* fixed one stands for it.
PathOrder == << <<"name">>, <<"user", "name">> >>
FieldPaths == {PathOrder[i] : i \in 1..Len(PathOrder)}

\* fieldKeysWithValidation of runFieldLevelValidations
fieldKeysWithValidation ==
    SelectSeq(PathOrder, LAMBDA f : f \in DOMAIN fields /\ fields[f].t # "none")

\* The placeholder of runFieldLevelValidations for a batch without validators.
DoNotDelete == Str("DO_NOT_DELETE_YOU_WILL_BE_FIRED")

\* The reduce of runFieldLevelValidations over the settled results.
RECURSIVE reduceFieldErrors(_, _)
reduceFieldErrors(keys, list) ==
    IF list = <<>> THEN EmptyObj
    ELSE LET n == Len(list)
             prev == reduceFieldErrors(keys, SubSeq(list, 1, n - 1))
             curr == list[n]
         IN IF curr = DoNotDelete THEN prev
            ELSE IF Truthy(curr) THEN setIn(prev, keys[n], curr)
            ELSE prev

-----------------------------------------------------------------------------
(* Validation runs.  A run is one call of runValidations that has not yet  *)
(* resolved: the values it validates, whether submitForm waits for it, and *)
(* for each of its sources what the validator gave and whether that has    *)
(* settled.  order lists the sources in the order they settled.            *)

Slot(out) == [st |-> IF IsAsync(out) THEN "pending" ELSE "settled", out |-> out]
Settled(slot) == [slot EXCEPT !.st = "settled"]

NoRun == [vals |-> Undef, submit |-> FALSE, keys |-> <<>>, slots |-> <<>>,
          schema |-> [st |-> "off", inner |-> <<>>],
          handler |-> [st |-> "off", out |-> Outcome("return", Undef)],
          order |-> <<>>]

\* validationSchema, or its result when it is a function
schemaOf(validationSchema) ==
    IF validationSchema.t = "factory" THEN ConstSchema(validationSchema.inner)
    ELSE validationSchema

Call(fn, path, arg) == [fn |-> fn, path |-> path, arg |-> arg]

\* runSingleFieldLevelValidation(field, value): the call of the validator
\* registered at field and what it gives
runSingleFieldLevelValidation(field, value) ==
    [call |-> Call("fieldValidate", field, value),
     out |-> ValidatorOutcome(fields[field], value)]

\* The validator calls of runFieldLevelValidations(values), one per key.
fieldValidations(vals) ==
    LET keys == fieldKeysWithValidation
    IN [i \in 1..Len(keys) |->
          runSingleFieldLevelValidation(keys[i], getIn(vals, keys[i]))]

\* The synchronous part of runValidations(values): every validator is called.
startRun(vals, submit) ==
    LET keys == fieldKeysWithValidation
    IN [vals |-> vals, submit |-> submit, keys |-> keys,
        slots |-> [i \in 1..Len(keys) |-> Slot(fieldValidations(vals)[i].out)],
        schema |-> IF props.validationSchema.t = "none"
                   THEN [st |-> "off", inner |-> <<>>]
                   ELSE [st |-> "pending",
                         inner |-> SchemaFailures(schemaOf(props.validationSchema),
                                                  validateData(vals))],
        handler |-> IF props.validate.t = "none"
                    THEN [st |-> "off", out |-> Outcome("return", Undef)]
                    ELSE Slot(FormValidatorOutcome(props.validate, vals)),
        order |-> <<>>]

\* The callbacks startRun invokes, in the order of the code.
runCalls(vals) ==
    LET keys == fieldKeysWithValidation
    IN [i \in 1..Len(keys) |-> fieldValidations(vals)[i].call]
       \o (IF props.validationSchema.t = "none" THEN <<>>
           ELSE <<Call("schemaValidate", <<>>, validateData(vals))>>)
       \o (IF props.validate.t = "none" THEN <<>>
           ELSE <<Call("validate", <<>>, vals)>>)

FieldsSettled(run) == \A i \in 1..Len(run.slots) : run.slots[i].st = "settled"
Ready(run) ==
    FieldsSettled(run) /\ run.schema.st # "pending" /\ run.handler.st # "pending"
NoReadyRun ==
    /\ \A i \in 1..Len(runs) : ~Ready(runs[i])
    /\ \A i \in 1..Len(fieldRuns) : fieldRuns[i].st # "settled"

\* Faulty variant: then(x => x) only, a rejection contributes nothing.
fieldSettledValueUncaught(out) ==
    IF out.kind \in {"throw", "reject"} THEN Undef ELSE out.val

\* then(x => x, e => e) of runFieldLevelValidations: what one validator
\* contributes once it has settled
fieldSettledValue(out) == out.val

\* The promise of runFieldLevelValidations: the tree of the field errors.
runFieldLevelValidations(run) ==
    reduceFieldErrors(run.keys,
        IF Len(run.keys) > 0
        THEN [i \in 1..Len(run.keys) |-> fieldSettledValue(run.slots[i].out)]
        ELSE <<DoNotDelete>>)

\* The promise of runValidationSchema: {} when the schema passes
runValidationSchema(inner) ==
    IF inner = <<>> THEN EmptyObj ELSE yupToFormErrors(inner)

\* Faulty variant: a promise that resolves gives what it resolves with.
runValidateHandlerResolved(out) ==
    CASE out.kind = "return" -> IF out.val = Undef THEN EmptyObj ELSE out.val
      [] out.kind = "resolve" -> IF out.val = Undef THEN EmptyObj ELSE out.val
      [] OTHER -> out.val

\* The promise of runValidateHandler for an outcome of props.validate
runValidateHandler(out) ==
    CASE out.kind = "return" -> IF out.val = Undef THEN EmptyObj ELSE out.val
      [] out.kind = "resolve" -> EmptyObj
      [] OTHER -> out.val

\* The three trees the continuation of runValidations receives.
runTrees(run) ==
    << runFieldLevelValidations(run),
       IF run.schema.st = "off" THEN EmptyObj ELSE runValidationSchema(run.schema.inner),
       IF run.handler.st = "off" THEN EmptyObj ELSE runValidateHandler(run.handler.out) >>

\* Faulty variant: the tree of the form-level validator is left out.
combinedErrorsWithoutHandler(fieldErrors, schemaErrors, handlerErrors) ==
    deepmergeAll(<<fieldErrors, schemaErrors>>)

\* Faulty variant: the three trees merged in the opposite order.
combinedErrorsReversed(fieldErrors, schemaErrors, handlerErrors) ==
    deepmergeAll(<<handlerErrors, schemaErrors, fieldErrors>>)

\* Faulty variant: the result of a run is merged into the errors already
\* there.
combinedErrorsKeepsOld(fieldErrors, schemaErrors, handlerErrors) ==
    deepmergeAll(<<errors, fieldErrors, schemaErrors, handlerErrors>>)

\* combinedErrors of runValidations
combinedErrors(fieldErrors, schemaErrors, handlerErrors) ==
    deepmergeAll(<<fieldErrors, schemaErrors, handlerErrors>>)

\* Faulty variant: the decision reads state.errors, which the run has not yet written.
isValidOfState(combined) == IsEmptyObj(errors)

\* isValid of submitForm
isValid(combined) == IsEmptyObj(combined)

Remove(seq, i) == SubSeq(seq, 1, i - 1) \o SubSeq(seq, i + 1, Len(seq))

\* What validateField(field) waits for: the promise of
\* runSingleFieldLevelValidation.  Its executor calls the validator, so a
\* validator that throws, and a field without validator (a TypeError),
\* reject it.
TypeError == Str("TypeError")
FieldRun(field, out) ==
    [field |-> field, out |-> out,
     st |-> IF IsAsync(out) THEN "pending" ELSE "settled"]
NoFieldRun == FieldRun(<<>>, Outcome("return", Undef))
Rejected(out) == out.kind \in {"throw", "reject"}

\* A change or blur event: the path the handler was obtained for (empty when
\* the handler was given the event directly) and the target of the event.
\* name and id are paths, empty when the element has none; value is the
\* text of the element.
Target(type, name, id, value, checked) ==
    [type |-> type, name |-> name, id |-> id, value |-> value, checked |-> checked]
Event(maybePath, target) == [maybePath |-> maybePath, target |-> target]
NoEvent == Event(<<>>, Target("", <<>>, <<>>, "", FALSE))

\* The record of a step: the operation, its argument, whether it repeats the
\* step before it, for the completion of a run the run, the three trees
\* of its sources and their merge, its position among the pending runs
\* and state.errors before the completion, for the continuation of
\* validateField the promise it waited for, and for a setter of one field
\* the path and the shouldValidate flag.
Op(op, arg) == [op |-> op, arg |-> arg, again |-> FALSE, run |-> NoRun,
                trees |-> <<EmptyObj, EmptyObj, EmptyObj>>, combined |-> EmptyObj,
                fieldRun |-> NoFieldRun, index |-> 0,
                before |-> EmptyObj, path |-> <<>>, flag |-> FALSE,
                event |-> NoEvent]

-----------------------------------------------------------------------------
(* The operations of the controller.                                       *)

\* An operation a user or the application issues: the controller is
\* mounted and no continuation is waiting to run.
Accepts == didMount /\ NoReadyRun

\* runValidations(values) called by an operation: the state it writes and
\* the run it starts
StartsRun(vals, submit) ==
    /\ Len(runs) < MaxRuns
    /\ isValidating' = TRUE
    /\ runs' = Append(runs, startRun(vals, submit))
    /\ calls' = runCalls(vals)

\* Faulty variant: a path that is already registered keeps its entry.
registerFieldKeepsFirst(name, fns) ==
    /\ NoReadyRun
    /\ fields' = fields @@ (name :> fns)
    /\ lastOp' = [Op("registerField", fns) EXCEPT
                     !.path = name,
                     !.again = lastOp.op = "registerField" /\ lastOp.path = name]
    /\ calls' = <<>>
    /\ UNCHANGED <<asyncVars, bindings, viewVars>>
    /\ resetSnap' = formState
    /\ UNCHANGED <<formState, didMount, props, runs>>

registerField(name, fns) ==
    /\ NoReadyRun
    /\ fields' = (name :> fns) @@ fields
    /\ lastOp' = [Op("registerField", fns) EXCEPT
                     !.path = name,
                     !.again = lastOp.op = "registerField" /\ lastOp.path = name]
    /\ calls' = <<>>
    /\ UNCHANGED <<asyncVars, bindings, viewVars>>
    /\ resetSnap' = formState
    /\ UNCHANGED <<formState, didMount, props, runs>>

unregisterField(name) ==
    /\ NoReadyRun
    /\ name \in DOMAIN fields
    /\ fields' = [f \in DOMAIN fields \ {name} |-> fields[f]]
    /\ lastOp' = [Op("unregisterField", Undef) EXCEPT !.path = name]
    /\ calls' = <<>>
    /\ UNCHANGED <<asyncVars, bindings, viewVars>>
    /\ resetSnap' = formState
    /\ UNCHANGED <<formState, didMount, props, runs>>

componentDidMount ==
    /\ ~didMount
    /\ lastOp.op \in {"init", "registerField", "unregisterField"}
    /\ didMount' = TRUE
    /\ IF props.validateOnLoad
       THEN /\ StartsRun(values, FALSE)
            /\ UNCHANGED <<values, initialValues, errors, touched, isSubmitting,
                           status, submitCount>>
       ELSE /\ calls' = <<>>
            /\ UNCHANGED <<formState, runs>>
    /\ lastOp' = Op("componentDidMount", Undef)
    /\ UNCHANGED <<fields, props>>
    /\ UNCHANGED <<asyncVars, bindings, viewVars>>
    /\ resetSnap' = formState'

componentWillUnmount ==
    /\ Accepts
    /\ didMount' = FALSE
    /\ lastOp' = Op("componentWillUnmount", Undef)
    /\ calls' = <<>>
    /\ UNCHANGED <<asyncVars, bindings, viewVars>>
    /\ resetSnap' = formState
    /\ UNCHANGED <<formState, fields, props, runs>>

\* validateForm of the actions object: runValidations()
validateForm ==
    /\ Accepts
    /\ StartsRun(values, FALSE)
    /\ lastOp' = Op("validateForm", Undef)
    /\ UNCHANGED <<values, initialValues, errors, touched, isSubmitting, status,
                   submitCount, didMount, fields, props>>
    /\ UNCHANGED <<asyncVars, bindings, viewVars>>
    /\ resetSnap' = formState'

\* Faulty variant: the run is started whatever shouldValidate is.
setFieldValueValidates(shouldValidate) == props.validateOnChange

\* this.props.validateOnChange && shouldValidate of setFieldValue
setFieldValueValidation(shouldValidate) == props.validateOnChange /\ shouldValidate

setFieldValue(field, value, shouldValidate) ==
    /\ Accepts
    /\ values' = setIn(values, field, value)
    /\ IF setFieldValueValidation(shouldValidate)
       THEN StartsRun(values', FALSE)
       ELSE calls' = <<>> /\ UNCHANGED <<isValidating, runs>>
    /\ lastOp' = [Op("setFieldValue", value) EXCEPT !.path = field,
                                                    !.flag = shouldValidate]
    /\ UNCHANGED <<initialValues, errors, touched, isSubmitting, status,
                   submitCount, didMount, fields, props>>
    /\ UNCHANGED <<asyncVars, bindings, viewVars>>
    /\ resetSnap' = formState'

\* The tree the run of setValues(vs) validates: the argument
setValuesRunValues(vs) == vs

\* setValues(values)
setValues(vs) ==
    /\ Accepts
    /\ values' = vs
    /\ IF props.validateOnChange
       THEN StartsRun(setValuesRunValues(vs), FALSE)
       ELSE calls' = <<>> /\ UNCHANGED <<isValidating, runs>>
    /\ lastOp' = Op("setValues", vs)
    /\ UNCHANGED <<initialValues, errors, touched, isSubmitting, status,
                   submitCount, didMount, fields, props>>
    /\ UNCHANGED <<asyncVars, bindings, viewVars>>
    /\ resetSnap' = formState'

\* setTouched(touched)
setTouched(t) ==
    /\ Accepts
    /\ touched' = t
    /\ IF props.validateOnBlur
       THEN StartsRun(values, FALSE)
       ELSE calls' = <<>> /\ UNCHANGED <<isValidating, runs>>
    /\ lastOp' = Op("setTouched", t)
    /\ UNCHANGED <<values, initialValues, errors, isSubmitting, status,
                   submitCount, didMount, fields, props>>
    /\ UNCHANGED <<asyncVars, bindings, viewVars>>
    /\ resetSnap' = formState'

\* Faulty variant: the run is started whatever shouldValidate is.
setFieldTouchedValidates(shouldValidate) == props.validateOnBlur

\* this.props.validateOnBlur && shouldValidate of setFieldTouched
setFieldTouchedValidation(shouldValidate) == props.validateOnBlur /\ shouldValidate

\* setFieldTouched(field, touched, shouldValidate)
setFieldTouched(field, t, shouldValidate) ==
    /\ Accepts
    /\ touched' = setIn(touched, field, Bool(t))
    /\ IF setFieldTouchedValidation(shouldValidate)
       THEN StartsRun(values, FALSE)
       ELSE calls' = <<>> /\ UNCHANGED <<isValidating, runs>>
    /\ lastOp' = [Op("setFieldTouched", Bool(t)) EXCEPT !.path = field,
                                                        !.flag = shouldValidate]
    /\ UNCHANGED <<values, initialValues, errors, isSubmitting, status,
                   submitCount, didMount, fields, props>>
    /\ UNCHANGED <<asyncVars, bindings, viewVars>>
    /\ resetSnap' = formState'

\* setIn(prevState.touched, field, true) of executeBlur; for a target
\* without name and id the path is empty and the update gives a state
\* equivalent to the one before.
blurTouched(field) ==
    IF field = <<>> THEN touched ELSE setIn(touched, field, Bool(TRUE))

\* executeBlur of handleBlur for an event whose field (the bound path, else
\* the target's name, else its id) is field
handleBlur(field) ==
    /\ Accepts
    /\ touched' = blurTouched(field)
    /\ IF props.validateOnBlur
       THEN StartsRun(values, FALSE)
       ELSE calls' = <<>> /\ UNCHANGED <<isValidating, runs>>
    /\ lastOp' = [Op("handleBlur", Undef) EXCEPT !.path = field]
    /\ UNCHANGED <<values, initialValues, errors, isSubmitting, status,
                   submitCount, didMount, fields, props>>
    /\ UNCHANGED <<asyncVars, bindings, viewVars>>
    /\ resetSnap' = formState'

\* Faulty variant: the all-true image of the touched tree instead of the values.
submitFormStateOfTouched ==
    [touched |-> setNestedObjectValues(touched, Bool(TRUE)),
     isSubmitting |-> TRUE,
     submitCount |-> submitCount + 1]

\* Faulty variant: submitCount is not incremented.
submitFormStateNoCount ==
    [touched |-> setNestedObjectValues(values, Bool(TRUE)),
     isSubmitting |-> TRUE,
     submitCount |-> submitCount]

\* The state the updater of submitForm returns.
submitFormState ==
    [touched |-> setNestedObjectValues(values, Bool(TRUE)),
     isSubmitting |-> TRUE,
     submitCount |-> submitCount + 1]

submitForm ==
    /\ Accepts
    /\ submitCount < MaxSubmitCount
    /\ touched' = submitFormState.touched
    /\ isSubmitting' = submitFormState.isSubmitting
    /\ submitCount' = submitFormState.submitCount
    /\ StartsRun(values, TRUE)
    /\ lastOp' = Op("submitForm", Undef)
    /\ UNCHANGED <<values, initialValues, errors, status, didMount, fields, props>>
    /\ UNCHANGED <<asyncVars, bindings, viewVars>>
    /\ resetSnap' = formState'

\* resetFormState(values)
resetFormState(vals) ==
    [isSubmitting |-> FALSE, isValidating |-> FALSE, errors |-> EmptyObj,
     touched |-> EmptyObj, status |-> Undef, values |-> vals, submitCount |-> 0]

\* Faulty variant: resetForm stores the values it replaces as the initial ones.
resetFormInitialValuesSwapped(nextValues) == values

\* state.initialValues after resetForm(nextValues): the state resetForm sets
\* has no initialValues key, so the slot keeps what it holds
resetFormInitialValues(nextValues) == initialValues

\* The state resetForm(nextValues) sets; nextValues is Undef when the
\* argument is absent
resetFormWrites(nextValues) ==
    /\ LET next == resetFormState(IF Truthy(nextValues) THEN nextValues
                                  ELSE initialValues)
       IN /\ isSubmitting' = next.isSubmitting
          /\ isValidating' = next.isValidating
          /\ errors' = next.errors
          /\ touched' = next.touched
          /\ status' = next.status
          /\ values' = next.values
          /\ submitCount' = next.submitCount
    /\ initialValues' = resetFormInitialValues(nextValues)

resetForm(nextValues) ==
    /\ Accepts
    /\ resetFormWrites(nextValues)
    /\ lastOp' = [Op("resetForm", nextValues) EXCEPT
                     !.again = lastOp.op = "resetForm" /\ lastOp.arg = nextValues]
    /\ calls' = <<>>
    /\ UNCHANGED <<didMount, fields, props, runs>>
    /\ UNCHANGED <<asyncVars, bindings, viewVars>>
    /\ resetSnap' = IF lastOp.op = "resetForm" /\ lastOp.arg = nextValues
                    THEN resetSnap ELSE formState'

\* Faulty variant: the state follows the supplied initial values whether
\* or not enableReinitialize is set.
reinitializesAlways(nextProps) == ~isEqual(initialValues, nextProps.initialValues)

\* The condition of getDerivedStateFromProps(nextProps, prevState)
reinitializes(nextProps) ==
    nextProps.enableReinitialize /\ ~isEqual(initialValues, nextProps.initialValues)

\* The parent renders <Formik/> with nextProps: the state React derives by
\* getDerivedStateFromProps before the render.
getDerivedStateFromProps(nextProps) ==
    /\ Accepts
    /\ props' = nextProps
    /\ IF reinitializes(nextProps)
       THEN LET next == resetFormState(nextProps.initialValues)
            IN /\ initialValues' = nextProps.initialValues
               /\ isSubmitting' = next.isSubmitting
               /\ isValidating' = next.isValidating
               /\ errors' = next.errors
               /\ touched' = next.touched
               /\ status' = next.status
               /\ values' = next.values
               /\ submitCount' = next.submitCount
       ELSE UNCHANGED formState
    /\ lastOp' = [Op("getDerivedStateFromProps", nextProps.initialValues) EXCEPT
                     !.before = errors]
    /\ calls' = <<>>
    /\ UNCHANGED <<didMount, fields, runs>>
    /\ UNCHANGED <<asyncVars, bindings, viewVars>>
    /\ resetSnap' = formState'

\* validateField(field)
validateField(field) ==
    /\ Accepts
    /\ Len(fieldRuns) < MaxRuns
    /\ isValidating' = TRUE
    /\ IF field \in DOMAIN fields /\ fields[field].t # "none"
       THEN LET single == runSingleFieldLevelValidation(field, getIn(values, field))
            IN /\ fieldRuns' = Append(fieldRuns, FieldRun(field, single.out))
               /\ calls' = <<single.call>>
       ELSE /\ fieldRuns' = Append(fieldRuns, FieldRun(field, Outcome("throw", TypeError)))
            /\ calls' = <<>>
    /\ lastOp' = [Op("validateField", Undef) EXCEPT !.path = field]
    /\ UNCHANGED <<values, initialValues, errors, touched, isSubmitting, status,
                   submitCount, didMount, fields, props, runs, onResets, bindings, viewVars>>
    /\ resetSnap' = formState'

\* Faulty variant: the form is reset at once whatever onReset returns.
resetDeferredNever == FALSE

\* isPromise(maybePromisedOnReset) of handleReset
resetDeferred == IsAsync(props.onReset.out)

\* handleReset(): props.onReset is [t, out] as a validator is; it returns
\* out.val or a promise
handleReset ==
    /\ Accepts
    /\ IF props.onReset.t = "none"
       THEN /\ resetFormWrites(Undef)
            /\ calls' = <<>>
            /\ UNCHANGED onResets
       ELSE /\ calls' = <<Call("onReset", <<>>, values)>>
            /\ IF resetDeferred
               THEN /\ Len(onResets) < MaxRuns
                    /\ onResets' = Append(onResets, props.onReset.out)
                    /\ UNCHANGED formState
               ELSE /\ resetFormWrites(Undef)
                    /\ UNCHANGED onResets
    /\ lastOp' = Op("handleReset", Undef)
    /\ UNCHANGED <<didMount, fields, props, runs, fieldRuns, bindings, viewVars>>
    /\ resetSnap' = formState'

-----------------------------------------------------------------------------
(* Change events and the handlers cached by field name.                    *)

\* The characters of the texts typed into the elements of the model.
Chars(text) ==
    CASE text = "" -> <<>>
      [] text = "a" -> <<"a">>
      [] text = "1" -> <<"1">>
      [] text = "1.5" -> <<"1", ".", "5">>
      [] text = "12a" -> <<"1", "2", "a">>
      [] text = "-2" -> <<"-", "2">>
      [] text = ".5" -> <<".", "5">>
      [] text = " 3" -> <<" ", "3">>
      [] text = "-" -> <<"-">>

DigitChars == <<"0", "1", "2", "3", "4", "5", "6", "7", "8", "9">>
IsDigit(c) == \E i \in 1..10 : DigitChars[i] = c
DigitOf(c) == (CHOOSE i \in 1..10 : DigitChars[i] = c) - 1

\* The text without its leading blanks.
RECURSIVE TrimLeft(_)
TrimLeft(cs) == IF cs # <<>> /\ Head(cs) = " " THEN TrimLeft(Tail(cs)) ELSE cs

\* The digits a sequence of characters starts with, and the natural number
\* a sequence of digits denotes.
RECURSIVE DigitRun(_)
DigitRun(cs) ==
    IF cs # <<>> /\ IsDigit(Head(cs)) THEN <<Head(cs)>> \o DigitRun(Tail(cs))
    ELSE <<>>

RECURSIVE NatOf(_)
NatOf(ds) ==
    IF ds = <<>> THEN 0
    ELSE 10 * NatOf(SubSeq(ds, 1, Len(ds) - 1)) + DigitOf(ds[Len(ds)])

\* parseFloat(text): the longest prefix of the trimmed text that is a
\* decimal literal (a sign, digits, a point and digits), NaN when there is
\* none; at most two digits after the point are kept
parseFloat(text) ==
    LET cs == TrimLeft(Chars(text))
        signed == cs # <<>> /\ Head(cs) \in {"-", "+"}
        body == IF signed THEN Tail(cs) ELSE cs
        int == DigitRun(body)
        rest == SubSeq(body, Len(int) + 1, Len(body))
        frac == IF rest # <<>> /\ Head(rest) = "." THEN DigitRun(Tail(rest)) ELSE <<>>
        hundredths == SubSeq(frac \o <<"0", "0">>, 1, 2)
        n == 100 * NatOf(int) + NatOf(hundredths)
    IN IF int = <<>> /\ frac = <<>> THEN NaN
       ELSE Num(IF signed /\ Head(cs) = "-" THEN 0 - n ELSE n)

\* /number|range/.test(type) and /checkbox/.test(type) for the types of
\* HTML inputs
IsNumberType(type) == type \in {"number", "range"}
IsCheckboxType(type) == type = "checkbox"

\* Faulty variant: a text that is not a number is written as it was typed.
changeValueKeepsText(target) ==
    IF IsNumberType(target.type)
    THEN LET parsed == parseFloat(target.value)
         IN IF isNaN(parsed) THEN Str(target.value) ELSE parsed
    ELSE IF IsCheckboxType(target.type) THEN Bool(target.checked)
    ELSE Str(target.value)

\* val of executeChange for an event on target
changeValue(target) ==
    IF IsNumberType(target.type)
    THEN LET parsed == parseFloat(target.value)
         IN IF isNaN(parsed) THEN Str("") ELSE parsed
    ELSE IF IsCheckboxType(target.type) THEN Bool(target.checked)
    ELSE Str(target.value)

\* field of executeChange and of executeBlur: maybePath ? maybePath : name ?
\* name : id
eventField(maybePath, target) ==
    IF maybePath # <<>> THEN maybePath
    ELSE IF target.name # <<>> THEN target.name ELSE target.id

\* executeChange for an event: handleChange(event) when maybePath is empty,
\* and otherwise the handler handleChange(maybePath) returned, which exists
\* once it has been asked for.  Without a field nothing is written (a
\* warning is logged outside production).
handleChange(maybePath, target) ==
    /\ Accepts
    /\ maybePath # <<>> => maybePath \in DOMAIN hcCache
    /\ LET field == eventField(maybePath, target)
           val == changeValue(target)
       IN /\ IF field # <<>>
             THEN /\ values' = setIn(values, field, val)
                  /\ IF props.validateOnChange
                     THEN StartsRun(setIn(values, field, val), FALSE)
                     ELSE calls' = <<>> /\ UNCHANGED <<isValidating, runs>>
             ELSE calls' = <<>> /\ UNCHANGED <<values, isValidating, runs>>
          /\ lastOp' = [Op("handleChange", val) EXCEPT
                           !.path = field, !.event = Event(maybePath, target)]
    /\ UNCHANGED <<initialValues, errors, touched, isSubmitting, status,
                   submitCount, didMount, fields, props>>
    /\ UNCHANGED <<asyncVars, bindings, viewVars>>
    /\ resetSnap' = formState'

\* Two change events handled before React flushes the state updates they
\* request (one batch): each call of executeChange queues its update of
\* values and, with validateOnChange, starts a run on
\* setIn(this.state.values, field, val), this.state being the state before
\* the batch; the queued updates are then applied in order.
handleChangeBatch(first, second) ==
    /\ Accepts
    /\ LET field1 == eventField(<<>>, first)
           field2 == eventField(<<>>, second)
           val1 == changeValue(first)
           val2 == changeValue(second)
           run1 == field1 # <<>> /\ props.validateOnChange
           run2 == field2 # <<>> /\ props.validateOnChange
           flushed1 == IF field1 # <<>> THEN setIn(values, field1, val1) ELSE values
           flushed2 == IF field2 # <<>> THEN setIn(flushed1, field2, val2) ELSE flushed1
           started == (IF run1 THEN <<startRun(setIn(values, field1, val1), FALSE)>> ELSE <<>>)
                      \o (IF run2 THEN <<startRun(setIn(values, field2, val2), FALSE)>> ELSE <<>>)
       IN /\ Len(runs) + Len(started) <= MaxRuns
          /\ values' = flushed2
          /\ runs' = runs \o started
          /\ isValidating' = IF started # <<>> THEN TRUE ELSE isValidating
          /\ calls' = (IF run1 THEN runCalls(setIn(values, field1, val1)) ELSE <<>>)
                      \o (IF run2 THEN runCalls(setIn(values, field2, val2)) ELSE <<>>)
          /\ lastOp' = [Op("handleChangeBatch", val2) EXCEPT
                           !.path = field2, !.event = Event(<<>>, second),
                           !.index = Len(started)]
    /\ UNCHANGED <<initialValues, errors, touched, isSubmitting, status,
                   submitCount, didMount, fields, props>>
    /\ UNCHANGED <<asyncVars, bindings, viewVars>>
    /\ resetSnap' = formState'

\* Faulty variant: a handler is made at every call.
cachedHandlerAlwaysNew(cache, name) == closures + 1

\* isFunction(cache[name]) ? cache[name] : (cache[name] = a new closure):
\* the handler a cache gives for a name
cachedHandler(cache, name) ==
    IF name \in DOMAIN cache THEN cache[name] ELSE closures + 1

\* handleChange(name) for a string: the handler of this.hcCache
changeHandler(name) ==
    /\ NoReadyRun
    /\ LET handler == cachedHandler(hcCache, name)
       IN /\ hcCache' = (name :> handler) @@ hcCache
          /\ closures' = IF handler > closures THEN handler ELSE closures
          /\ lastOp' = [Op("changeHandler", Undef) EXCEPT
                           !.path = name, !.index = handler]
    /\ calls' = <<>>
    /\ UNCHANGED <<formState, didMount, fields, props, runs, asyncVars, bindings,
                   hbCache, local, rendered, thens>>
    /\ resetSnap' = formState

\* handleBlur(name) for a string: the handler of this.hbCache
blurHandler(name) ==
    /\ NoReadyRun
    /\ LET handler == cachedHandler(hbCache, name)
       IN /\ hbCache' = (name :> handler) @@ hbCache
          /\ closures' = IF handler > closures THEN handler ELSE closures
          /\ lastOp' = [Op("blurHandler", Undef) EXCEPT
                           !.path = name, !.index = handler]
    /\ calls' = <<>>
    /\ UNCHANGED <<formState, didMount, fields, props, runs, asyncVars, bindings,
                   hcCache, local, rendered, thens>>
    /\ resetSnap' = formState

-----------------------------------------------------------------------------
(* Field bindings.  FieldInner and FastFieldInner register with the        *)
(* controller in their constructor, in componentDidUpdate and in           *)
(* componentWillUnmount; the three are the same code in both components.   *)

Bindings == {"Field", "FastField"}
Binding(name, validate) == [mounted |-> TRUE, name |-> name, validate |-> validate]
NoBinding == [mounted |-> FALSE, name |-> <<>>, validate |-> NoValidator]

\* this.state of a <FastField/> that is not mounted.
NoLocal == [value |-> Undef, error |-> Undef]

\* this.state the constructor of FastFieldInner sets for the name it is
\* given, which is also what a render reads from props.formik at the name
FastFieldState(name) ==
    [value |-> getIn(values, name), error |-> getIn(errors, name)]

\* Faulty variant: componentDidUpdate leaves the local state as it is.
didUpdateStateKeepsLocal(name) == local

\* this.state after componentDidUpdate(prevProps) of FastFieldInner whose
\* name is now name: the value and the error the controller holds at the
\* name replace the local ones when they differ from what the render
\* before read
didUpdateState(name) ==
    LET next == FastFieldState(name)
    IN [value |-> IF ~isEqual(next.value, rendered.value)
                  THEN next.value ELSE local.value,
        error |-> IF ~isEqual(next.error, rendered.error)
                  THEN next.error ELSE local.error]

\* this.fields after formik.registerField(name, {validate}) and after
\* formik.unregisterField(name)
withField(flds, name, validate) == (name :> validate) @@ flds
withoutField(flds, name) == [f \in DOMAIN flds \ {name} |-> flds[f]]

\* Faulty variant: a change of the validator alone is not registered.
didUpdateFieldsNameOnly(prevProps, nextProps) ==
    IF nextProps.name # prevProps.name
    THEN withField(withoutField(fields, prevProps.name),
                   nextProps.name, nextProps.validate)
    ELSE fields

\* this.fields after componentDidUpdate(prevProps) of a binding whose props
\* are now nextProps
didUpdateFields(prevProps, nextProps) ==
    LET renamed == IF nextProps.name # prevProps.name
                   THEN withField(withoutField(fields, prevProps.name),
                                  nextProps.name, nextProps.validate)
                   ELSE fields
    IN IF nextProps.validate # prevProps.validate
       THEN withField(renamed, nextProps.name, nextProps.validate)
       ELSE renamed

\* The constructor of a binding with the props name and validate.
FieldConstructor(b, name, validate) ==
    /\ NoReadyRun
    /\ ~bindings[b].mounted
    /\ bindings' = [bindings EXCEPT ![b] = Binding(name, validate)]
    /\ fields' = withField(fields, name, validate)
    /\ IF b = "FastField"
       THEN local' = FastFieldState(name) /\ rendered' = FastFieldState(name)
       ELSE UNCHANGED <<local, rendered>>
    /\ lastOp' = [Op("fieldConstructor", Str(b)) EXCEPT !.path = name]
    /\ calls' = <<>>
    /\ UNCHANGED <<formState, didMount, props, runs, asyncVars, hcCache, hbCache,
                   closures, thens>>
    /\ resetSnap' = formState

\* A binding is rendered again, with the props name and validate (which
\* may be the ones it has), and its componentDidUpdate runs.  The record of
\* the step tells whether the render follows a resetForm.
FieldDidUpdate(b, name, validate) ==
    /\ NoReadyRun
    /\ bindings[b].mounted
    /\ bindings' = [bindings EXCEPT ![b] = Binding(name, validate)]
    /\ fields' = didUpdateFields(bindings[b], Binding(name, validate))
    /\ lastOp' = [Op("fieldDidUpdate", Str(b)) EXCEPT
                     !.path = name,
                     !.flag = Binding(name, validate) # bindings[b],
                     !.again = lastOp.op = "resetForm"]
    /\ IF b = "FastField"
       THEN local' = didUpdateState(name) /\ rendered' = FastFieldState(name)
       ELSE UNCHANGED <<local, rendered>>
    /\ calls' = <<>>
    /\ UNCHANGED <<formState, didMount, props, runs, asyncVars, hcCache, hbCache,
                   closures, thens>>
    /\ resetSnap' = formState

\* componentWillUnmount of a binding
FieldWillUnmount(b) ==
    /\ NoReadyRun
    /\ bindings[b].mounted
    /\ bindings' = [bindings EXCEPT ![b] = NoBinding]
    /\ fields' = withoutField(fields, bindings[b].name)
    /\ IF b = "FastField"
       THEN local' = NoLocal /\ rendered' = NoLocal
       ELSE UNCHANGED <<local, rendered>>
    /\ lastOp' = [Op("fieldWillUnmount", Str(b)) EXCEPT !.path = bindings[b].name]
    /\ calls' = <<>>
    /\ UNCHANGED <<formState, didMount, props, runs, asyncVars, hcCache, hbCache,
                   closures, thens>>
    /\ resetSnap' = formState

-----------------------------------------------------------------------------
(* The event handlers of <Field/>.                                         *)

\* A promise a validator returned to a binding: the handler that waits for
\* it, the name it captured, what the promise settles with, and the errors
\* of the controller the handler had read.
Then(kind, name, out, errs) == [kind |-> kind, name |-> name, out |-> out, errs |-> errs]

\* Faulty variant: setFieldError keeps no other error.
setFieldErrorAlone(field, message) == setIn(EmptyObj, field, message)

\* setFieldError(field, message): the errors it sets
setFieldError(field, message) == setIn(errors, field, message)

\* setErrors(errors)
setErrors(errs) ==
    /\ Accepts
    /\ errors' = errs
    /\ lastOp' = Op("setErrors", errs)
    /\ calls' = <<>>
    /\ UNCHANGED <<values, initialValues, touched, isValidating, isSubmitting,
                   status, submitCount, didMount, fields, props, runs, asyncVars,
                   bindings, viewVars>>
    /\ resetSnap' = formState'

\* setStatus(status)
setStatus(st) ==
    /\ Accepts
    /\ status' = st
    /\ lastOp' = Op("setStatus", st)
    /\ calls' = <<>>
    /\ UNCHANGED <<values, initialValues, errors, touched, isValidating,
                   isSubmitting, submitCount, didMount, fields, props, runs,
                   asyncVars, bindings, viewVars>>
    /\ resetSnap' = formState'

\* setSubmitting(isSubmitting)
setSubmitting(b) ==
    /\ Accepts
    /\ isSubmitting' = b
    /\ lastOp' = Op("setSubmitting", Bool(b))
    /\ calls' = <<>>
    /\ UNCHANGED <<values, initialValues, errors, touched, isValidating, status,
                   submitCount, didMount, fields, props, runs, asyncVars,
                   bindings, viewVars>>
    /\ resetSnap' = formState'

\* setFieldError(field, message) called on the controller
SetFieldError(field, message) ==
    /\ Accepts
    /\ errors' = setFieldError(field, message)
    /\ lastOp' = [Op("setFieldError", message) EXCEPT !.path = field]
    /\ calls' = <<>>
    /\ UNCHANGED <<values, initialValues, touched, isValidating, isSubmitting,
                   status, submitCount, didMount, fields, props, runs, asyncVars,
                   bindings, viewVars>>
    /\ resetSnap' = formState'

\* Faulty variant: the validator of the field is run whatever the
\* validateOn flag of the form is.
fieldValidatesAlways(validateOn, validate) == validate.t # "none"

\* !!validateOnChange && !!this.props.validate of FieldInner.handleChange,
\* and the same with validateOnBlur of handleBlur
fieldValidates(validateOn, validate) == validateOn /\ validate.t # "none"

\* runFieldValidations(value) of the <Field/> name with the validator
\* validate: the call, and the error written at once or the promise waited
\* for
runFieldValidations(name, validate, value) ==
    LET out == ValidatorOutcome(validate, value)
    IN /\ IF IsAsync(out)
          THEN /\ Len(thens) < MaxRuns
               /\ thens' = Append(thens, Then("setFieldError", name, out, EmptyObj))
               /\ UNCHANGED errors
          ELSE /\ errors' = setFieldError(name, out.val)
               /\ UNCHANGED thens

\* FieldInner.handleChange(e): formik.handleChange(e), then the validator
\* of the field on the text of the target
FieldHandleChange(target) ==
    /\ Accepts
    /\ bindings["Field"].mounted
    /\ LET name == bindings["Field"].name
           validate == bindings["Field"].validate
           field == eventField(<<>>, target)
           val == changeValue(target)
           starts == field # <<>> /\ props.validateOnChange
           validates == fieldValidates(props.validateOnChange, validate)
       IN /\ values' = IF field # <<>> THEN setIn(values, field, val) ELSE values
          /\ IF starts
             THEN /\ Len(runs) < MaxRuns
                  /\ isValidating' = TRUE
                  /\ runs' = Append(runs, startRun(setIn(values, field, val), FALSE))
             ELSE UNCHANGED <<isValidating, runs>>
          /\ IF validates
             THEN runFieldValidations(name, validate, Str(target.value))
             ELSE UNCHANGED <<errors, thens>>
          /\ calls' = <<Call("formik.handleChange", field, Str(target.value))>>
                      \o (IF starts THEN runCalls(setIn(values, field, val)) ELSE <<>>)
                      \o (IF validates
                          THEN <<Call("props.validate", name, Str(target.value))>>
                          ELSE <<>>)
          /\ lastOp' = [Op("fieldChange", val) EXCEPT
                           !.path = name, !.event = Event(<<>>, target)]
    /\ UNCHANGED <<initialValues, touched, isSubmitting, status, submitCount,
                   didMount, fields, props, asyncVars, bindings, hcCache, hbCache,
                   closures, local, rendered>>
    /\ resetSnap' = formState'

\* FieldInner.handleBlur(e) for a target that has a name or an id:
\* formik.handleBlur(e), then the validator of the field on the text of the
\* target
FieldHandleBlur(target) ==
    /\ Accepts
    /\ bindings["Field"].mounted
    /\ eventField(<<>>, target) # <<>>
    /\ LET name == bindings["Field"].name
           validate == bindings["Field"].validate
           field == eventField(<<>>, target)
           validates == fieldValidates(props.validateOnBlur, validate)
       IN /\ touched' = setIn(touched, field, Bool(TRUE))
          /\ IF props.validateOnBlur
             THEN /\ Len(runs) < MaxRuns
                  /\ isValidating' = TRUE
                  /\ runs' = Append(runs, startRun(values, FALSE))
             ELSE UNCHANGED <<isValidating, runs>>
          /\ IF validates
             THEN runFieldValidations(name, validate, Str(target.value))
             ELSE UNCHANGED <<errors, thens>>
          /\ calls' = <<Call("formik.handleBlur", field, Str(target.value))>>
                      \o (IF props.validateOnBlur THEN runCalls(values) ELSE <<>>)
                      \o (IF validates
                          THEN <<Call("props.validate", name, Str(target.value))>>
                          ELSE <<>>)
          /\ lastOp' = [Op("fieldBlur", Undef) EXCEPT
                           !.path = name, !.event = Event(<<>>, target)]
    /\ UNCHANGED <<values, initialValues, isSubmitting, status, submitCount,
                   didMount, fields, props, asyncVars, bindings, hcCache, hbCache,
                   closures, local, rendered>>
    /\ resetSnap' = formState'

\* The promise the validator of a <Field/> returned settles, and the
\* callback of runFieldValidations runs: setFieldError(name, undefined) when
\* it resolved, setFieldError(name, error) when it rejected.
FieldThen(i) ==
    /\ NoReadyRun
    /\ i \in 1..Len(thens)
    /\ thens[i].kind = "setFieldError"
    /\ thens' = Remove(thens, i)
    /\ errors' = setFieldError(thens[i].name,
                               IF thens[i].out.kind = "resolve" THEN Undef
                               ELSE thens[i].out.val)
    /\ lastOp' = [Op("fieldThen", Undef) EXCEPT
                     !.path = thens[i].name,
                     !.fieldRun = FieldRun(thens[i].name, thens[i].out),
                     !.before = errors]
    /\ calls' = <<>>
    /\ UNCHANGED <<values, initialValues, touched, isValidating, isSubmitting,
                   status, submitCount, didMount, fields, props, runs, asyncVars,
                   bindings, hcCache, hbCache, closures, local, rendered>>
    /\ resetSnap' = formState'

-----------------------------------------------------------------------------
(* Names as they are spelled, and the render of a <Field/>.                *)

\* The characters of the names that are spelled in a dotted or bracketed
\* way.
NameChars(name) ==
    CASE name = "" -> <<>>
      [] name = "a.b[0].c" -> <<"a", ".", "b", "[", "0", "]", ".", "c">>
      [] name = "a[b][0].c" -> <<"a", "[", "b", "]", "[", "0", "]", ".", "c">>
      [] name = "user[superPowers][0]" -> <<"u", "s", "e", "r", "[", "s", "u", "p", "e", "r", "P", "o", "w", "e", "r", "s", "]", "[", "0", "]">>
      [] name = "user.superPowers[1]" -> <<"u", "s", "e", "r", ".", "s", "u", "p", "e", "r", "P", "o", "w", "e", "r", "s", "[", "1", "]">>
      [] name = "user[superPowers].1" -> <<"u", "s", "e", "r", "[", "s", "u", "p", "e", "r", "P", "o", "w", "e", "r", "s", "]", ".", "1">>

\* Faulty variant: only a dot separates the segments of a name.
RECURSIVE toPathDotsOnly(_, _)
toPathDotsOnly(cs, cur) ==
    IF cs = <<>> THEN (IF cur = "" THEN <<>> ELSE <<cur>>)
    ELSE IF Head(cs) = "."
         THEN (IF cur = "" THEN <<>> ELSE <<cur>>) \o toPathDotsOnly(Tail(cs), "")
         ELSE toPathDotsOnly(Tail(cs), cur \o Head(cs))

\* The segments of a name, given its characters and the segment being
\* read: a dot, an opening and a closing bracket each end a segment, and
\* no segment is empty.
RECURSIVE toPath(_, _)
toPath(cs, cur) ==
    IF cs = <<>> THEN (IF cur = "" THEN <<>> ELSE <<cur>>)
    ELSE IF Head(cs) \in {".", "[", "]"}
         THEN (IF cur = "" THEN <<>> ELSE <<cur>>) \o toPath(Tail(cs), "")
         ELSE toPath(Tail(cs), cur \o Head(cs))

\* The path a spelled name addresses.
pathOf(name) == toPath(NameChars(name), "")

\* getFieldBag(component) of a <Field/> whose props.name is spelled
\* spelling: field.value is read from formik.values at name, which is not
\* among the props the function takes from the component and so is the
\* global of that name (window.name, globalName here).
getFieldBag(spelling, globalName) ==
    /\ NoReadyRun
    /\ bindings["Field"].mounted
    /\ bindings["Field"].name = pathOf(spelling)
    /\ lastOp' = [Op("getFieldBag", getIn(values, pathOf(globalName))) EXCEPT
                     !.path = pathOf(globalName)]
    /\ calls' = <<Call("getFieldBag", pathOf(spelling), Str(spelling))>>
    /\ UNCHANGED <<formState, didMount, fields, props, runs, asyncVars, bindings,
                   viewVars>>
    /\ resetSnap' = formState

-----------------------------------------------------------------------------
(* The event handlers of <FastField/>.                                     *)

\* A promise object as setIn and isEqual see it: it has no own enumerable
\* property.
PromiseObject == EmptyObj

\* isEqualExceptForKey(a, b, path)
isEqualExceptForKey(a, b, path) ==
    isEqual(setIn(a, path, Undef), setIn(b, path, Undef))

\* Faulty variant: the validator of the field is run on blur whatever
\* validateOnBlur is.
fastValidatesOnBlurAlways(validate) == validate.t # "none"

\* validateOnBlur && validate of FastFieldInner.handleBlur
fastValidatesOnBlur(validate) == props.validateOnBlur /\ validate.t # "none"

\* Faulty variant: a change validates whatever validateOnChange is.
fastValidatesOnChangeAlways == TRUE

\* if (validateOnChange) of FastFieldInner.handleChange
fastValidatesOnChange == props.validateOnChange

\* The setFormikState of FastFieldInner.handleBlur: the local value, the
\* error and touched true are written at name.
liftFastField(name, error) ==
    /\ values' = setIn(values, name, local.value)
    /\ errors' = setIn(errors, name, error)
    /\ touched' = setIn(touched, name, Bool(TRUE))

\* FastFieldInner.handleChange(e)
FastFieldHandleChange(target) ==
    /\ Accepts
    /\ bindings["FastField"].mounted
    /\ LET name == bindings["FastField"].name
           own == bindings["FastField"].validate
           val == changeValue(target)
           merged == setIn(values, name, val)
           valueOnly == [local EXCEPT !.value = val]
       IN /\ IF ~fastValidatesOnChange
             THEN /\ local' = valueOnly
                  /\ calls' = <<>>
                  /\ UNCHANGED <<errors, thens>>
             ELSE IF own.t # "none"
             THEN LET out == ValidatorOutcome(own, Str(target.value))
                  IN /\ calls' = <<Call("props.validate", name, Str(target.value))>>
                     /\ UNCHANGED errors
                     /\ IF IsAsync(out)
                        THEN /\ Len(thens) < MaxRuns
                             /\ local' = valueOnly
                             /\ thens' = Append(thens, Then("fastChange", name, out, EmptyObj))
                        ELSE /\ local' = [value |-> val, error |-> out.val]
                             /\ UNCHANGED thens
             ELSE IF props.validate.t # "none"
             THEN LET out == FormValidatorOutcome(props.validate, merged)
                  IN /\ calls' = <<Call("validate", <<>>, merged)>>
                     /\ IF IsAsync(out)
                        THEN /\ Len(thens) < MaxRuns
                             /\ local' = valueOnly
                             /\ thens' = Append(thens, Then("fastFormChange", name, out, errors))
                             /\ UNCHANGED errors
                        ELSE IF isEqualExceptForKey(out.val, errors, name)
                        THEN /\ local' = [value |-> val, error |-> getIn(out.val, name)]
                             /\ UNCHANGED <<errors, thens>>
                        ELSE /\ local' = valueOnly
                             /\ errors' = out.val
                             /\ UNCHANGED thens
             ELSE IF props.validationSchema.t # "none"
             THEN LET inner == SchemaFailures(props.validationSchema, validateData(merged))
                  IN /\ calls' = <<Call("validateYupSchema", <<>>, merged)>>
                     /\ local' = [value |-> val,
                                  error |-> IF inner = <<>> THEN Undef
                                            ELSE getIn(yupToFormErrors(inner), name)]
                     /\ UNCHANGED <<errors, thens>>
             ELSE /\ local' = valueOnly
                  /\ calls' = <<>>
                  /\ UNCHANGED <<errors, thens>>
          /\ lastOp' = [Op("fastChange", val) EXCEPT
                           !.path = name, !.event = Event(<<>>, target),
                           !.before = errors]
    /\ UNCHANGED <<values, initialValues, touched, isValidating, isSubmitting,
                   status, submitCount, didMount, fields, props, runs, asyncVars,
                   bindings, hcCache, hbCache, closures, rendered>>
    /\ resetSnap' = formState'

\* FastFieldInner.handleBlur()
FastFieldHandleBlur ==
    /\ Accepts
    /\ bindings["FastField"].mounted
    /\ LET name == bindings["FastField"].name
           validate == bindings["FastField"].validate
           out == ValidatorOutcome(validate, local.value)
       IN /\ IF fastValidatesOnBlur(validate)
             THEN /\ calls' = <<Call("props.validate", name, local.value)>>
                  /\ IF IsAsync(out)
                     THEN /\ Len(thens) < MaxRuns
                          /\ thens' = Append(thens, Then("fastBlur", name, out, EmptyObj))
                          /\ UNCHANGED <<values, errors, touched>>
                     ELSE /\ liftFastField(name, out.val)
                          /\ UNCHANGED thens
             ELSE /\ calls' = <<>>
                  /\ liftFastField(name, local.error)
                  /\ UNCHANGED thens
          /\ lastOp' = [Op("fastBlur", local.value) EXCEPT
                           !.path = name, !.before = errors]
    /\ UNCHANGED <<initialValues, isValidating, isSubmitting, status,
                   submitCount, didMount, fields, props, runs, asyncVars,
                   bindings, hcCache, hbCache, closures, local, rendered>>
    /\ resetSnap' = formState'

\* The promise a validator returned to a handler of the <FastField/>
\* settles, and the callback the handler gave to then runs.
FastFieldThen(i) ==
    /\ NoReadyRun
    /\ i \in 1..Len(thens)
    /\ thens[i].kind \in {"fastChange", "fastFormChange", "fastBlur"}
    /\ bindings["FastField"].mounted
    /\ thens' = Remove(thens, i)
    /\ LET kind == thens[i].kind
           out == thens[i].out
           name == bindings["FastField"].name
       IN CASE kind = "fastChange" ->
                 /\ local' = [local EXCEPT !.error = IF out.kind = "resolve"
                                                      THEN Undef ELSE out.val]
                 /\ UNCHANGED <<values, errors, touched>>
            [] kind = "fastFormChange" ->
                 IF out.kind = "resolve"
                 THEN /\ local' = [local EXCEPT !.error = Undef]
                      /\ UNCHANGED <<values, errors, touched>>
                 ELSE IF isEqualExceptForKey(PromiseObject, thens[i].errs, name)
                 THEN /\ local' = [local EXCEPT !.error = getIn(out.val, name)]
                      /\ UNCHANGED <<values, errors, touched>>
                 ELSE /\ errors' = out.val
                      /\ UNCHANGED <<values, touched, local>>
            [] kind = "fastBlur" ->
                 /\ liftFastField(thens[i].name,
                                  IF out.kind = "resolve" THEN Undef ELSE out.val)
                 /\ UNCHANGED local
    /\ lastOp' = [Op("fastThen", Str(thens[i].kind)) EXCEPT
                     !.path = thens[i].name,
                     !.fieldRun = FieldRun(thens[i].name, thens[i].out),
                     !.before = errors]
    /\ calls' = <<>>
    /\ UNCHANGED <<initialValues, isValidating, isSubmitting, status,
                   submitCount, didMount, fields, props, runs, asyncVars,
                   bindings, hcCache, hbCache, closures, rendered>>
    /\ resetSnap' = formState'

-----------------------------------------------------------------------------
(* The settlement of promises.                                             *)

\* The promise a field validator returned settles.
SettleField(i, j) ==
    /\ NoReadyRun
    /\ i \in 1..Len(runs)
    /\ j \in 1..Len(runs[i].slots)
    /\ runs[i].slots[j].st = "pending"
    /\ LET slots == [runs[i].slots EXCEPT ![j] = Settled(@)]
           done == \A n \in 1..Len(slots) : slots[n].st = "settled"
       IN runs' = [runs EXCEPT ![i].slots = slots,
                               ![i].order = IF done THEN Append(@, "field") ELSE @]
    /\ lastOp' = Op("settle", Undef)
    /\ calls' = <<>>
    /\ UNCHANGED <<asyncVars, bindings, viewVars>>
    /\ resetSnap' = formState
    /\ UNCHANGED <<formState, didMount, fields, props>>

\* The promise of the schema's validate settles.
SettleSchema(i) ==
    /\ NoReadyRun
    /\ i \in 1..Len(runs)
    /\ runs[i].schema.st = "pending"
    /\ runs' = [runs EXCEPT ![i].schema.st = "settled",
                            ![i].order = Append(@, "schema")]
    /\ lastOp' = Op("settle", Undef)
    /\ calls' = <<>>
    /\ UNCHANGED <<asyncVars, bindings, viewVars>>
    /\ resetSnap' = formState
    /\ UNCHANGED <<formState, didMount, fields, props>>

\* The promise props.validate returned settles.
SettleHandler(i) ==
    /\ NoReadyRun
    /\ i \in 1..Len(runs)
    /\ runs[i].handler.st = "pending"
    /\ runs' = [runs EXCEPT ![i].handler.st = "settled",
                            ![i].order = Append(@, "handler")]
    /\ lastOp' = Op("settle", Undef)
    /\ calls' = <<>>
    /\ UNCHANGED <<asyncVars, bindings, viewVars>>
    /\ resetSnap' = formState
    /\ UNCHANGED <<formState, didMount, fields, props>>

\* Faulty variant: the continuation writes without asking whether the
\* component is still mounted.
didMountGuardAbsent == TRUE

\* Faulty variant: the result of a run is dropped while another run is
\* pending.
didMountGuardLatestOnly == didMount /\ Len(runs) <= 1

\* Faulty variant: the result of a run is dropped when the values are no
\* longer the ones it was started with.
didMountGuardDropsStale ==
    didMount /\ \A i \in 1..Len(runs) : Ready(runs[i]) => runs[i].vals = values

\* if (this.didMount) of the continuations of runValidations and
\* validateField
didMountGuard == didMount

\* Faulty variant: onSubmit is given the initial values.
executeSubmitInitial == <<Call("onSubmit", <<>>, initialValues)>>

\* executeSubmit: the call of props.onSubmit
executeSubmit == <<Call("onSubmit", <<>>, values)>>

\* The continuation of runValidations once its three promises have settled,
\* followed for a run of submitForm by the continuation of submitForm.
CompleteRun(i) ==
    /\ i \in 1..Len(runs)
    /\ Ready(runs[i])
    /\ LET run == runs[i]
           trees == runTrees(run)
           combined == combinedErrors(trees[1], trees[2], trees[3])
       IN /\ runs' = Remove(runs, i)
          /\ IF didMountGuard
             THEN isValidating' = FALSE /\ errors' = combined
             ELSE UNCHANGED <<isValidating, errors>>
          /\ IF run.submit
             THEN IF isValid(combined)
                  THEN calls' = executeSubmit /\ UNCHANGED isSubmitting
                  ELSE calls' = <<>> /\ isSubmitting' = FALSE
             ELSE calls' = <<>> /\ UNCHANGED isSubmitting
          /\ lastOp' = [Op("complete", Undef) EXCEPT
                           !.run = run, !.trees = trees, !.combined = combined,
                           !.index = i, !.before = errors]
    /\ UNCHANGED <<values, initialValues, touched, status, submitCount, didMount,
                   fields, props>>
    /\ UNCHANGED <<asyncVars, bindings, viewVars>>
    /\ resetSnap' = formState'

\* The promise a validator called by validateField returned settles.
SettleFieldRun(i) ==
    /\ NoReadyRun
    /\ i \in 1..Len(fieldRuns)
    /\ fieldRuns[i].st = "pending"
    /\ fieldRuns' = [fieldRuns EXCEPT ![i].st = "settled"]
    /\ lastOp' = Op("settle", Undef)
    /\ calls' = <<>>
    /\ resetSnap' = formState
    /\ UNCHANGED <<formState, didMount, fields, props, runs, onResets, bindings, viewVars>>

\* Faulty variant: the result of validateField replaces the error tree.
validateFieldErrorsAlone(field, error) == setIn(EmptyObj, field, error)

\* errors of the state the continuation of validateField sets
validateFieldErrors(field, error) == setIn(errors, field, error)

\* The continuation of validateField: then(error => ...) has no rejection
\* handler, so a rejected promise runs nothing and the rejection is
\* reported to the host as unhandled.
CompleteFieldRun(i) ==
    /\ i \in 1..Len(fieldRuns)
    /\ fieldRuns[i].st = "settled"
    /\ LET fr == fieldRuns[i]
       IN /\ fieldRuns' = Remove(fieldRuns, i)
          /\ IF didMountGuard /\ ~Rejected(fr.out)
             THEN /\ errors' = validateFieldErrors(fr.field, fr.out.val)
                  /\ isValidating' = FALSE
             ELSE UNCHANGED <<errors, isValidating>>
          /\ calls' = IF Rejected(fr.out)
                      THEN <<Call("unhandledrejection", fr.field, fr.out.val)>>
                      ELSE <<>>
          /\ lastOp' = [Op("completeField", Undef) EXCEPT !.fieldRun = fr,
                                                          !.before = errors]
    /\ UNCHANGED <<values, initialValues, touched, isSubmitting, status,
                   submitCount, didMount, fields, props, runs, onResets, bindings, viewVars>>
    /\ resetSnap' = formState'

\* The promise props.onReset returned settles: then(this.resetForm) calls
\* resetForm with what the promise resolves with, and runs nothing when it
\* rejects.
SettleOnReset(i) ==
    /\ NoReadyRun
    /\ i \in 1..Len(onResets)
    /\ onResets' = Remove(onResets, i)
    /\ IF Rejected(onResets[i])
       THEN UNCHANGED formState
       ELSE resetFormWrites(onResets[i].val)
    /\ lastOp' = Op("settleOnReset", onResets[i].val)
    /\ calls' = <<>>
    /\ UNCHANGED <<didMount, fields, props, runs, fieldRuns, bindings, viewVars>>
    /\ resetSnap' = formState'

-----------------------------------------------------------------------------
(* The configurations and the inputs of the controller specification.      *)

\* props.initialValues
InitialValues ==
    Obj([name |-> Str(""), user |-> Obj([name |-> Str("u")]),
         tags |-> Arr(<<Str("x")>>)])

\* The argument of resetForm when one is given: another tree of the same
\* shape.
NextValues == setIn(InitialValues, <<"name">>, Str("a"))

\* props.isInitialValid: a boolean, or a function of the props; the
\* functions of the model return the prop named key.
Flag(b) == [t |-> "flag", v |-> b, key |-> ""]
OfProps(key) == [t |-> "fn", v |-> FALSE, key |-> key]

Props(validate, validationSchema, validateOnChange, validateOnLoad) ==
    [initialValues |-> InitialValues, validate |-> validate,
     validationSchema |-> validationSchema, validateOnChange |-> validateOnChange,
     validateOnBlur |-> TRUE, validateOnLoad |-> validateOnLoad,
     onReset |-> NoValidator, isInitialValid |-> Flag(FALSE),
     enableReinitialize |-> FALSE]

NameTooShort == <<Failure(<<"name">>, "too short"), Failure(<<"name">>, "also bad")>>

Configs ==
    { Props(NoValidator, NoSchema, TRUE, FALSE),
      Props(NoValidator, RequiredSchema(NameTooShort), TRUE, FALSE),
      Props(Required(Outcome("reject", Obj([name |-> Str("m")]))), NoSchema,
            FALSE, TRUE) }

\* The validators fields register with.
FieldValidators ==
    { NoValidator, Required(Outcome("reject", Str("required"))) }

\* The values typed into a field.
Inputs == {Str(""), Str("a")}

\* The state after the constructor, with the fields reg already registered.
InitWith(p, reg) ==
    /\ props = p
    /\ values = p.initialValues
    /\ initialValues = p.initialValues
    /\ errors = EmptyObj
    /\ touched = EmptyObj
    /\ isSubmitting = FALSE
    /\ isValidating = FALSE
    /\ status = Undef
    /\ submitCount = 0
    /\ didMount = FALSE
    /\ fields = reg
    /\ runs = <<>>
    /\ fieldRuns = <<>>
    /\ onResets = <<>>
    /\ bindings = [b \in Bindings |-> NoBinding]
    /\ hcCache = <<>>
    /\ hbCache = <<>>
    /\ closures = 0
    /\ local = NoLocal
    /\ rendered = NoLocal
    /\ thens = <<>>
    /\ lastOp = Op("init", Undef)
    /\ calls = <<>>
    /\ resetSnap = formState

Init == \E p \in Configs : InitWith(p, <<>>)

Settle ==
    \E i \in 1..MaxRuns :
        \/ \E j \in 1..Len(PathOrder) : SettleField(i, j)
        \/ SettleSchema(i)
        \/ SettleHandler(i)

Complete == \E i \in 1..MaxRuns : CompleteRun(i)

\* Fields are constructed, and register, before the controller mounts.
Register ==
    /\ lastOp.op \in {"init", "registerField", "unregisterField"}
    /\ \/ \E v \in FieldValidators : registerField(<<"name">>, v)
       \/ unregisterField(<<"name">>)

SetFieldValue ==
    \E v \in Inputs, b \in BOOLEAN : setFieldValue(<<"name">>, v, b)

ResetForm == \E nv \in {Undef, NextValues} : resetForm(nv)

Next ==
    \/ Register
    \/ componentDidMount
    \/ componentWillUnmount
    \/ validateForm
    \/ SetFieldValue
    \/ submitForm
    \/ ResetForm
    \/ Settle
    \/ Complete

Spec == Init /\ [][Next]_vars

-----------------------------------------------------------------------------
(* The pipeline specification: one validation run at a time on a mounted   *)
(* controller, over every combination of field validators, schema and      *)
(* form-level validator of the sets below.                                 *)

Message == Str("f")
HandlerTrees == {Obj([name |-> Str("m")]), Obj([user |-> Obj([name |-> Str("m")])])}

\* What a field validator of the pipeline specification gives.
FieldOutcomes ==
    {Outcome(kind, val) : kind \in {"return", "throw", "resolve", "reject"},
                          val \in {Undef, Message}}

\* A path is not registered, registered without validator, or with one.
Unregistered == [t |-> "unregistered", out |-> Outcome("return", Undef)]
Registrations == {Unregistered, NoValidator} \cup {Const(out) : out \in FieldOutcomes}

\* What the form-level validator of the pipeline specification gives.
HandlerOutcomes ==
    {Outcome("return", Undef), Outcome("resolve", Undef)}
    \cup {Outcome(kind, val) : kind \in {"return", "resolve", "reject"},
                               val \in HandlerTrees}

PipelineSchemas ==
    { NoSchema, ConstSchema(<<>>),
      ConstSchema(<<Failure(<<"name">>, "s"), Failure(<<"user", "name">>, "s")>>),
      ConstSchema(<<Failure(<<"user", "email">>, "s")>>) }

PipelineConfigs ==
    {Props(validate, schema, TRUE, FALSE) :
        validate \in {NoValidator} \cup {Const(out) : out \in HandlerOutcomes},
        schema \in PipelineSchemas}

InitPipeline ==
    \E p \in PipelineConfigs, reg \in [FieldPaths -> Registrations] :
        InitWith(p, [f \in {g \in FieldPaths : reg[g] # Unregistered} |-> reg[f]])

NextPipeline ==
    \/ componentDidMount
    \/ runs = <<>> /\ validateForm
    \/ Settle
    \/ Complete

SpecPipeline == InitPipeline /\ [][NextPipeline]_vars

-----------------------------------------------------------------------------
(* The schema specification: a run whose only source is a schema, over     *)
(* every list of failures up to MaxFailures.                               *)

FailurePaths == {<<"name">>, <<"user", "name">>, <<"user", "email">>}
FailureMessages == {"too short", "also bad"}
Failures == {Failure(p, m) : p \in FailurePaths, m \in FailureMessages}
FailureLists == UNION {[1..n -> Failures] : n \in 0..MaxFailures}

SchemaConfigs ==
    {Props(NoValidator, schema, TRUE, FALSE) :
        schema \in {ConstSchema(inner) : inner \in FailureLists}
                   \cup {SchemaFactory(inner) : inner \in FailureLists}}

InitSchema == \E p \in SchemaConfigs : InitWith(p, <<>>)

NextSchema ==
    \/ componentDidMount
    \/ runs = <<>> /\ validateForm
    \/ \E i \in 1..MaxRuns : SettleSchema(i)
    \/ Complete

SpecSchema == InitSchema /\ [][NextSchema]_vars

-----------------------------------------------------------------------------
(* The asynchronous specification: validation runs, validateField calls,   *)
(* submits and deferred resets that overlap and settle in any order, on a  *)
(* controller that may unmount while they are pending.                     *)

\* props.onReset: absent, returning nothing, or returning a promise
OnResets == {NoValidator, Const(Outcome("resolve", Undef))}

AsyncConfigs ==
    {[Props(NoValidator, NoSchema, TRUE, FALSE) EXCEPT !.onReset = r] :
        r \in OnResets}

\* The validator of the field name, when it is registered.
AsyncValidators ==
    { Required(Outcome("return", Str("required"))),
      Required(Outcome("reject", Str("required"))) }

InitAsync ==
    \E p \in AsyncConfigs :
        \/ InitWith(p, <<>>)
        \/ \E v \in AsyncValidators : InitWith(p, <<"name">> :> v)

SettleAsync ==
    \E i \in 1..MaxRuns :
        \/ SettleField(i, 1)
        \/ SettleFieldRun(i)
        \/ SettleOnReset(i)

CompleteAsync ==
    \E i \in 1..MaxRuns : CompleteRun(i) \/ CompleteFieldRun(i)

NextAsync ==
    \/ componentDidMount
    \/ componentWillUnmount
    \/ validateForm
    \/ validateField(<<"name">>)
    \/ submitForm
    \/ handleReset
    \/ SettleAsync
    \/ CompleteAsync

SpecAsync == InitAsync /\ [][NextAsync]_vars

-----------------------------------------------------------------------------
(* The setters specification: the operations that write values and touched *)
(* on a mounted controller whose field name has an asynchronous validator, *)
(* for every setting of validateOnChange and validateOnBlur.               *)

SetterConfigs ==
    {[Props(NoValidator, NoSchema, onChange, FALSE) EXCEPT !.validateOnBlur = onBlur] :
        onChange \in BOOLEAN, onBlur \in BOOLEAN}

\* The validator of the field name: it reports an empty name.
NameRequired == Required(Outcome("reject", Str("required")))

\* The arguments of setTouched.
TouchedTrees == {EmptyObj, Obj([name |-> Bool(TRUE)])}

InitSetters == \E p \in SetterConfigs : InitWith(p, <<"name">> :> NameRequired)

NextSetters ==
    \/ componentDidMount
    \/ \E v \in Inputs, b \in BOOLEAN : setFieldValue(<<"name">>, v, b)
    \/ \E vs \in {InitialValues, NextValues} : setValues(vs)
    \/ \E f \in FieldPaths, t \in BOOLEAN, b \in BOOLEAN : setFieldTouched(f, t, b)
    \/ \E t \in TouchedTrees : setTouched(t)
    \/ \E f \in FieldPaths : handleBlur(f)
    \/ \E i \in 1..MaxRuns : SettleField(i, 1)
    \/ \E i \in 1..MaxRuns : CompleteRun(i)

SpecSetters == InitSetters /\ [][NextSetters]_vars

-----------------------------------------------------------------------------
(* The field specification: field validators at name and user.name that    *)
(* report an empty value, synchronously or by a promise; values are        *)
(* changed one at a time and each run settles before the next change.      *)

RequiredValidators ==
    {Required(Outcome(kind, Str("required"))) : kind \in {"return", "resolve", "reject"}}

InitField ==
    \E v \in RequiredValidators, w \in RequiredValidators :
        InitWith(Props(NoValidator, NoSchema, TRUE, FALSE),
                 (<<"name">> :> v) @@ (<<"user", "name">> :> w))

NextField ==
    \/ componentDidMount
    \/ /\ runs = <<>>
       /\ \E f \in FieldPaths, v \in Inputs : setFieldValue(f, v, TRUE)
    \/ \E j \in 1..Len(PathOrder) : SettleField(1, j)
    \/ CompleteRun(1)

SpecField == InitField /\ [][NextField]_vars

-----------------------------------------------------------------------------
(* The registry specification: fields register, register again and         *)
(* unregister at name and user.name, before and after the mount.           *)

RegistryValidators ==
    {NoValidator, Const(Outcome("return", Str("f"))), NameRequired}

InitRegistry == InitWith(Props(NoValidator, NoSchema, TRUE, FALSE), <<>>)

NextRegistry ==
    \/ componentDidMount
    \/ \E f \in FieldPaths, v \in RegistryValidators : registerField(f, v)
    \/ \E f \in FieldPaths : unregisterField(f)

SpecRegistry == InitRegistry /\ [][NextRegistry]_vars

-----------------------------------------------------------------------------
(* The bindings specification: a <Field/> and a <FastField/> are created,  *)
(* rendered again with the same or other props, and unmounted; they may be *)
(* bound to the same name.                                                 *)

BindingValidators == {NoValidator, NameRequired}

InitBindings == InitWith(Props(NoValidator, NoSchema, TRUE, FALSE), <<>>)

NextBindings ==
    \/ componentDidMount
    \/ \E b \in Bindings, f \in FieldPaths, v \in BindingValidators :
          FieldConstructor(b, f, v)
    \/ \E b \in Bindings, f \in FieldPaths, v \in BindingValidators :
          FieldDidUpdate(b, f, v)
    \/ \E b \in Bindings : FieldWillUnmount(b)

SpecBindings == InitBindings /\ [][NextBindings]_vars

-----------------------------------------------------------------------------
(* The computed-properties specification: values are changed and reset and *)
(* validated, for every kind of isInitialValid.                            *)

InitialValids ==
    {Flag(FALSE), Flag(TRUE), OfProps("validateOnChange"), OfProps("validateOnBlur")}

ComputedConfigs ==
    {[Props(NoValidator, NoSchema, onChange, onLoad) EXCEPT
         !.validateOnBlur = FALSE, !.isInitialValid = v] :
        onChange \in BOOLEAN, onLoad \in BOOLEAN, v \in InitialValids}

InitComputed == \E p \in ComputedConfigs : InitWith(p, <<"name">> :> NameRequired)

NextComputed ==
    \/ componentDidMount
    \/ \E f \in FieldPaths, v \in Inputs : setFieldValue(f, v, TRUE)
    \/ validateForm
    \/ ResetForm
    \/ \E i \in 1..MaxRuns : SettleField(i, 1)
    \/ \E i \in 1..MaxRuns : CompleteRun(i)

SpecComputed == InitComputed /\ [][NextComputed]_vars

-----------------------------------------------------------------------------
(* The change-event specification: change events of every input type reach *)
(* handleChange directly or through the handler obtained for user.name.    *)

ChangeConfigs == {Props(NoValidator, NoSchema, onChange, FALSE) : onChange \in BOOLEAN}

InputTypes == {"text", "number", "range", "checkbox"}
Texts == {"", "a", "1.5", "12a", "-2", " 3"}

\* The targets of the events: elements with a name, an id, both or neither;
\* a checkbox is checked or not and its text is "a", the other inputs are
\* not checked and hold any of the texts.
Targets ==
    {t \in {Target(type, name, id, text, checked) :
                type \in InputTypes, name \in {<<>>, <<"name">>},
                id \in {<<>>, <<"user", "name">>}, text \in Texts,
                checked \in BOOLEAN} :
        IF t.type = "checkbox" THEN t.value = "a" ELSE ~t.checked}

InitChange == \E p \in ChangeConfigs : InitWith(p, <<>>)

NextChange ==
    \/ componentDidMount
    \/ changeHandler(<<"user", "name">>)
    \/ \E maybePath \in {<<>>, <<"user", "name">>}, target \in Targets :
          handleChange(maybePath, target)
    \/ CompleteRun(1)

SpecChange == InitChange /\ [][NextChange]_vars

-----------------------------------------------------------------------------
(* The handlers specification: change and blur handlers are asked for by   *)
(* name while values change, fields register and the form is reset.        *)

HandlerTargets ==
    {Target("text", <<"name">>, <<>>, text, FALSE) : text \in {"", "a"}}

InitHandlers == InitWith(Props(NoValidator, NoSchema, TRUE, FALSE), <<>>)

NextHandlers ==
    \/ componentDidMount
    \/ \E f \in FieldPaths : changeHandler(f)
    \/ \E f \in FieldPaths : blurHandler(f)
    \/ \E maybePath \in {<<>>, <<"name">>}, target \in HandlerTargets :
          handleChange(maybePath, target)
    \/ handleBlur(<<"name">>)
    \/ registerField(<<"name">>, NameRequired)
    \/ unregisterField(<<"name">>)
    \/ resetForm(Undef)
    \/ \E i \in 1..MaxRuns : SettleField(i, 1)
    \/ \E i \in 1..MaxRuns : CompleteRun(i)

SpecHandlers == InitHandlers /\ [][NextHandlers]_vars

-----------------------------------------------------------------------------
(* The reinitialization specification: the parent renders the form again   *)
(* with the same or other initial values, with enableReinitialize set or   *)
(* not, while the form is edited, submitted and validated.                 *)

InitReinit ==
    \E e \in BOOLEAN :
        InitWith([Props(NoValidator, NoSchema, TRUE, FALSE) EXCEPT
                     !.enableReinitialize = e],
                 <<"name">> :> NameRequired)

NextReinit ==
    \/ componentDidMount
    \/ \E v \in Inputs : setFieldValue(<<"name">>, v, TRUE)
    \/ submitForm
    \/ \E iv \in {InitialValues, NextValues}, e \in BOOLEAN :
          getDerivedStateFromProps([props EXCEPT !.initialValues = iv,
                                                 !.enableReinitialize = e])
    \/ \E i \in 1..MaxRuns : SettleField(i, 1)
    \/ \E i \in 1..MaxRuns : CompleteRun(i)

SpecReinit == InitReinit /\ [][NextReinit]_vars

-----------------------------------------------------------------------------
(* The single-field specification: validateField at name and user.name,    *)
(* for every kind of validator at name, while both paths have errors,      *)
(* values and touched flags of their own.                                  *)

\* The registration of name: none, one without validator, or a validator
\* that reports an empty name by returning, throwing, resolving or
\* rejecting.
NameRegistrations ==
    {Unregistered, NoValidator}
    \cup {Required(Outcome(kind, Str("required"))) :
             kind \in {"return", "throw", "resolve", "reject"}}

InitValidateField ==
    \E reg \in NameRegistrations :
        InitWith(Props(NoValidator, NoSchema, FALSE, FALSE),
                 IF reg = Unregistered
                 THEN <<"user", "name">> :> NameRequired
                 ELSE (<<"name">> :> reg) @@ (<<"user", "name">> :> NameRequired))

NextValidateField ==
    \/ componentDidMount
    \/ \E f \in FieldPaths, v \in Inputs : setFieldValue(f, v, TRUE)
    \/ setFieldTouched(<<"user", "name">>, TRUE, FALSE)
    \/ runs = <<>> /\ validateForm
    \/ \E f \in FieldPaths : fieldRuns = <<>> /\ validateField(f)
    \/ \E j \in 1..Len(PathOrder) : SettleField(1, j)
    \/ SettleFieldRun(1)
    \/ CompleteRun(1)
    \/ CompleteFieldRun(1)

SpecValidateField == InitValidateField /\ [][NextValidateField]_vars

-----------------------------------------------------------------------------
(* The reset specification: handleReset on a form that has been edited and *)
(* submitted, for every kind of onReset.                                   *)

\* props.onReset: absent, returning nothing, or returning a promise that
\* resolves (with nothing or with a value tree) or rejects
ResetCallbacks ==
    {NoValidator, Const(Outcome("return", Undef)), Const(Outcome("resolve", Undef)),
     Const(Outcome("resolve", NextValues)), Const(Outcome("reject", Undef))}

InitReset ==
    \E r \in ResetCallbacks :
        InitWith([Props(NoValidator, NoSchema, TRUE, FALSE) EXCEPT !.onReset = r],
                 <<"name">> :> NameRequired)

NextReset ==
    \/ componentDidMount
    \/ \E v \in Inputs : setFieldValue(<<"name">>, v, FALSE)
    \/ submitForm
    \/ handleReset
    \/ \E i \in 1..MaxRuns : SettleField(i, 1)
    \/ \E i \in 1..MaxRuns : SettleOnReset(i)
    \/ \E i \in 1..MaxRuns : CompleteRun(i)

SpecReset == InitReset /\ [][NextReset]_vars

-----------------------------------------------------------------------------
(* The field-events specification: change and blur events on a <Field/>    *)
(* bound to name, with or without a validator of its own, for every        *)
(* setting of validateOnChange and validateOnBlur.                         *)

\* props.validate of the <Field/>: none, or one that reports an empty text
\* by returning, by a promise that rejects, or by one that resolves
OwnValidators ==
    {NoValidator} \cup {Required(Outcome(kind, Str("required"))) :
                           kind \in {"return", "resolve", "reject"}}

\* The events on the element of the field.
NameTargets == {Target("text", <<"name">>, <<>>, text, FALSE) : text \in {"", "a"}}

InitFieldEvents == \E p \in SetterConfigs : InitWith(p, <<>>)

NextFieldEvents ==
    \/ componentDidMount
    \/ \E v \in OwnValidators : FieldConstructor("Field", <<"name">>, v)
    \/ \E t \in NameTargets : FieldHandleChange(t)
    \/ \E t \in NameTargets : FieldHandleBlur(t)
    \/ \E i \in 1..MaxRuns : FieldThen(i)
    \/ \E i \in 1..MaxRuns : SettleField(i, 1)
    \/ \E i \in 1..MaxRuns : CompleteRun(i)

SpecFieldEvents == InitFieldEvents /\ [][NextFieldEvents]_vars

-----------------------------------------------------------------------------
(* The fast-field specification: one <FastField/> at name, with or without *)
(* a validator of its own, under a form that has no validator, a           *)
(* form-level validator or a schema.  The form-level validators report an  *)
(* empty name, at name alone or at name and user.name.  The field is       *)
(* rendered again after every state update before the next event reaches   *)
(* it.                                                                     *)

NameError == Obj([name |-> Str("m")])
NameAndUserError == Obj([name |-> Str("m"), user |-> Obj([name |-> Str("n")])])

FastFormValidators ==
    {Required(Outcome(kind, tree)) :
        kind \in {"return", "reject"}, tree \in {NameError, NameAndUserError}}

FastConfigs ==
    {[Props(pair[1], pair[2], onChange, FALSE) EXCEPT !.validateOnBlur = onBlur] :
        pair \in ({NoValidator} \cup FastFormValidators) \X {NoSchema}
                 \cup {<<NoValidator, RequiredSchema(NameTooShort)>>},
        onChange \in BOOLEAN, onBlur \in BOOLEAN}

FastTargets ==
    {Target("text", <<"name">>, <<>>, "", FALSE),
     Target("text", <<"name">>, <<>>, "a", FALSE),
     Target("number", <<"name">>, <<>>, "12a", FALSE)}

\* The render that follows the last state update has happened.
Rendered ==
    bindings["FastField"].mounted =>
        rendered = FastFieldState(bindings["FastField"].name)

InitFastField == \E p \in FastConfigs : InitWith(p, <<>>)

NextFastField ==
    \/ componentDidMount
    \/ \E v \in OwnValidators : FieldConstructor("FastField", <<"name">>, v)
    \/ FieldDidUpdate("FastField", bindings["FastField"].name,
                      bindings["FastField"].validate)
    \/ Rendered /\ \E t \in FastTargets : FastFieldHandleChange(t)
    \/ Rendered /\ FastFieldHandleBlur
    \/ Rendered /\ \E i \in 1..MaxRuns : FastFieldThen(i)

SpecFastField == InitFastField /\ [][NextFastField]_vars

-----------------------------------------------------------------------------
(* The names specification: a <Field/> is bound to a name spelled with     *)
(* dots, with brackets or with both, over values that hold a sequence      *)
(* inside a mapping, and is rendered; the values at the names change.      *)

PathValues ==
    Obj([a |-> Obj([b |-> Arr(<<Obj([c |-> Str("x")])>>)]),
         user |-> Obj([superPowers |-> Arr(<<Str("Surging"), Str("Binding")>>)])])

Spellings ==
    {"a.b[0].c", "a[b][0].c", "user[superPowers][0]", "user.superPowers[1]",
     "user[superPowers].1"}

\* window.name: empty unless the page has set it.
GlobalNames == {"", "user.superPowers[1]"}

InitPaths ==
    InitWith([Props(NoValidator, NoSchema, FALSE, FALSE) EXCEPT
                 !.initialValues = PathValues], <<>>)

NextPaths ==
    \/ componentDidMount
    \/ \E n \in Spellings : FieldConstructor("Field", pathOf(n), NoValidator)
    \/ FieldWillUnmount("Field")
    \/ \E n \in Spellings, g \in GlobalNames : getFieldBag(n, g)
    \/ \E n \in Spellings, v \in Inputs : setFieldValue(pathOf(n), v, FALSE)

SpecPaths == InitPaths /\ [][NextPaths]_vars

-----------------------------------------------------------------------------
(* The identifier specification: change and blur events reach the          *)
(* controller from elements with a name, an id, both or neither, under the *)
(* four settings of validateOnChange and validateOnBlur.                   *)

IdentifierTargets ==
    {Target("text", name, id, text, FALSE) :
        name \in {<<>>, <<"name">>}, id \in {<<>>, <<"user", "name">>},
        text \in {"", "a"}}

InitIdentifiers == \E p \in SetterConfigs : InitWith(p, <<>>)

NextIdentifiers ==
    \/ componentDidMount
    \/ \E t \in IdentifierTargets : handleChange(<<>>, t)
    \/ \E t \in IdentifierTargets : handleBlur(eventField(<<>>, t))
    \/ \E i \in 1..MaxRuns : CompleteRun(i)

SpecIdentifiers == InitIdentifiers /\ [][NextIdentifiers]_vars

-----------------------------------------------------------------------------
(* The plain-setter specification: setErrors, setStatus, setSubmitting and *)
(* setFieldError are called while validation runs started by setFieldValue *)
(* are pending or not, under the four settings of validateOnChange and     *)
(* validateOnBlur.                                                         *)

ErrorTrees == {EmptyObj, NameError, Obj([user |-> Obj([name |-> Str("n")])])}
Statuses == {Undef, Str("sent")}

InitPlainSetters == \E p \in SetterConfigs : InitWith(p, <<"name">> :> NameRequired)

NextPlainSetters ==
    \/ componentDidMount
    \/ \E e \in ErrorTrees : setErrors(e)
    \/ \E st \in Statuses : setStatus(st)
    \/ \E b \in BOOLEAN : setSubmitting(b)
    \/ \E f \in FieldPaths, m \in {Undef, Str("m")} : SetFieldError(f, m)
    \/ setFieldValue(<<"name">>, Str("a"), TRUE)
    \/ \E i \in 1..MaxRuns : SettleField(i, 1)
    \/ \E i \in 1..MaxRuns : CompleteRun(i)

SpecPlainSetters == InitPlainSetters /\ [][NextPlainSetters]_vars

-----------------------------------------------------------------------------
(* The batch specification: change events for name and for user.name reach *)
(* the controller one at a time or two in one batch, with validateOnChange *)
(* true or false and a form-level validator that reports an empty name.    *)

BatchConfigs ==
    {Props(Required(Outcome("return", NameError)), NoSchema, onChange, FALSE) :
        onChange \in BOOLEAN}

InitBatch == \E p \in BatchConfigs : InitWith(p, <<>>)

NextBatch ==
    \/ componentDidMount
    \/ \E t \in IdentifierTargets : handleChange(<<>>, t)
    \/ \E t1 \in IdentifierTargets, t2 \in IdentifierTargets : handleChangeBatch(t1, t2)
    \/ \E i \in 1..MaxRuns : CompleteRun(i)

SpecBatch == InitBatch /\ [][NextBatch]_vars

-----------------------------------------------------------------------------
(* The submit-race specification: a form-level validator that reports an   *)
(* empty name by a promise; the form is submitted and values are changed   *)
(* by setFieldValue, setValues and change events, also while the run of    *)
(* the submit is pending.                                                  *)

RaceConfigs ==
    {Props(Required(Outcome("reject", NameError)), NoSchema, onChange, FALSE) :
        onChange \in BOOLEAN}

RaceTargets == {Target("text", <<"name">>, <<>>, text, FALSE) : text \in {"", "a"}}

InitSubmitRace == \E p \in RaceConfigs : InitWith(p, <<>>)

NextSubmitRace ==
    \/ componentDidMount
    \/ submitForm
    \/ \E v \in Inputs : setFieldValue(<<"name">>, v, TRUE)
    \/ \E vs \in {InitialValues, NextValues} : setValues(vs)
    \/ \E t \in RaceTargets : handleChange(<<>>, t)
    \/ \E i \in 1..MaxRuns : SettleHandler(i)
    \/ \E i \in 1..MaxRuns : CompleteRun(i)

SpecSubmitRace == InitSubmitRace /\ [][NextSubmitRace]_vars

-----------------------------------------------------------------------------
(* The overlap specification: a field validator that reports an empty name *)
(* and a form-level validator that reports user.name, both by promises;    *)
(* every change of values starts a run, a second run may start while the   *)
(* first is pending, and the runs settle in any order.                     *)

UserError == Obj([user |-> Obj([name |-> Str("n")])])

InitOverlap ==
    InitWith(Props(Const(Outcome("reject", UserError)), NoSchema, TRUE, FALSE),
             <<"name">> :> NameRequired)

NextOverlap ==
    \/ componentDidMount
    \/ \E v \in Inputs : setFieldValue(<<"name">>, v, TRUE)
    \/ \E t \in RaceTargets : handleChange(<<>>, t)
    \/ \E i \in 1..MaxRuns : SettleField(i, 1)
    \/ \E i \in 1..MaxRuns : SettleHandler(i)
    \/ \E i \in 1..MaxRuns : CompleteRun(i)

SpecOverlap == InitOverlap /\ [][NextOverlap]_vars

-----------------------------------------------------------------------------
(* The stale-run specification: the validators of the overlap              *)
(* specification; name is set to "a", which starts a run, name is          *)
(* validated alone, and the form is reset by resetForm() or by new         *)
(* initialValues under enableReinitialize while runs are pending.          *)

InitStaleRun ==
    InitWith([Props(Const(Outcome("reject", UserError)), NoSchema, TRUE, FALSE)
                 EXCEPT !.enableReinitialize = TRUE],
             <<"name">> :> NameRequired)

NextStaleRun ==
    \/ componentDidMount
    \/ setFieldValue(<<"name">>, Str("a"), TRUE)
    \/ validateField(<<"name">>)
    \/ resetForm(Undef)
    \/ \E iv \in {InitialValues, NextValues} :
          getDerivedStateFromProps([props EXCEPT !.initialValues = iv])
    \/ \E i \in 1..MaxRuns : SettleField(i, 1)
    \/ \E i \in 1..MaxRuns : SettleHandler(i)
    \/ \E i \in 1..MaxRuns : CompleteRun(i)
    \/ \E i \in 1..MaxRuns : SettleFieldRun(i)
    \/ \E i \in 1..MaxRuns : CompleteFieldRun(i)

SpecStaleRun == InitStaleRun /\ [][NextStaleRun]_vars

-----------------------------------------------------------------------------
(* The termination specification: a mounted controller with a validator    *)
(* for name that reports the empty name by a rejected promise; runs are    *)
(* started by setFieldValue, validateForm and validateField, and every     *)
(* promise that is pending settles and every continuation that is ready    *)
(* runs, whatever else is called in between (strong fairness of each       *)
(* settlement and completion).                                             *)

InitLive ==
    InitWith(Props(NoValidator, NoSchema, TRUE, FALSE), <<"name">> :> NameRequired)

Progress ==
    \E i \in 1..MaxRuns :
        \/ SettleField(i, 1)
        \/ CompleteRun(i)
        \/ SettleFieldRun(i)
        \/ CompleteFieldRun(i)

NextLive ==
    \/ componentDidMount
    \/ \E v \in Inputs : setFieldValue(<<"name">>, v, TRUE)
    \/ validateForm
    \/ validateField(<<"name">>)
    \/ Progress

SpecLive ==
    /\ InitLive /\ [][NextLive]_vars
    /\ \A i \in 1..MaxRuns :
          /\ SF_vars(SettleField(i, 1)) /\ SF_vars(CompleteRun(i))
          /\ SF_vars(SettleFieldRun(i)) /\ SF_vars(CompleteFieldRun(i))

-----------------------------------------------------------------------------
(* Computed properties.                                                    *)

\* dirty of getFormikComputedProps
dirty == ~isEqual(initialValues, values)

\* Faulty variant: isValid looks at errors whether or not the form is dirty.
computedIsValidOfErrors == IsEmptyObj(errors)

\* isValid of getFormikComputedProps
computedIsValid ==
    IF dirty THEN IsEmptyObj(errors)
    ELSE IF props.isInitialValid # Flag(FALSE) /\ props.isInitialValid.t = "fn"
         THEN props[props.isInitialValid.key]
         ELSE props.isInitialValid.v

-----------------------------------------------------------------------------
(* Properties.                                                            *)

\* C1: when the validation run of a submitForm() call settles with a
\* non-empty merged error tree, onSubmit is not invoked and isSubmitting is
\* false; when it settles with an empty tree, onSubmit is invoked exactly
\* once, with the controller's current values.
C1_SubmitGating ==
    (lastOp.op = "complete" /\ lastOp.run.submit) =>
        LET trees == runTrees(lastOp.run)
            merged == deepmergeAll(<<trees[1], trees[2], trees[3]>>)
        IN IF IsEmptyObj(merged)
           THEN calls = <<Call("onSubmit", <<>>, values)>>
           ELSE calls = <<>> /\ ~isSubmitting

\* A second submitForm() was blocked by a non-empty error tree.
C1_Witness ==
    /\ lastOp.op = "complete" /\ lastOp.run.submit
    /\ ~IsEmptyObj(lastOp.combined)
    /\ calls = <<>> /\ ~isSubmitting /\ submitCount = 2

\* C2: after submitForm() has applied its state update, touched is true at
\* every leaf path of values, and touched has no other leaf.
C2_TouchedOnSubmit ==
    lastOp.op = "submitForm" =>
        /\ \A path \in LeafPaths(values) : getIn(touched, path) = Bool(TRUE)
        /\ LeafPaths(touched) = LeafPaths(values)

\* submitForm() on values with a leaf in a nested mapping and in a sequence.
C2_Witness ==
    /\ lastOp.op = "submitForm"
    /\ <<"user", "name">> \in LeafPaths(values)
    /\ <<"tags", "0">> \in LeafPaths(values)
    /\ getIn(touched, <<"tags", "0">>) = Bool(TRUE)

\* C3: every submitForm() increments submitCount by exactly 1 and sets
\* isSubmitting while its validation run is still pending; submitCount
\* changes only by such an increment or by a reset to 0.
C3_SubmitCount ==
    [][ /\ lastOp'.op = "submitForm" =>
              /\ submitCount' = submitCount + 1
              /\ isSubmitting'
              /\ Len(runs') = Len(runs) + 1
              /\ runs'[Len(runs')].submit
        /\ submitCount' # submitCount =>
              \/ lastOp'.op = "submitForm" /\ submitCount' = submitCount + 1
              \/ lastOp'.op = "resetForm" /\ submitCount' = 0 ]_vars

\* A second submitForm() while the run of the first is still pending.
C3_Witness ==
    /\ lastOp.op = "submitForm"
    /\ submitCount = 2 /\ isSubmitting
    /\ Len(runs) = 2 /\ runs[1].submit /\ runs[2].submit

\* C4: after resetForm(nextValues), values and initialValues both equal
\* nextValues (the configured initial values when nextValues is absent),
\* errors and touched are empty, status is undefined, submitCount is 0 and
\* isSubmitting and isValidating are false.
C4_ResetState ==
    lastOp.op = "resetForm" =>
        LET target == IF lastOp.arg # Undef THEN lastOp.arg ELSE props.initialValues
        IN /\ values = target
           /\ initialValues = target
           /\ errors = EmptyObj /\ touched = EmptyObj /\ status = Undef
           /\ submitCount = 0 /\ ~isSubmitting /\ ~isValidating

\* C5: immediately after any resetForm call, dirty is false.
C5_ResetNotDirty == lastOp.op = "resetForm" => ~dirty

\* C6: resetForm followed immediately by the same resetForm leaves the
\* FormState the first one produced.
C6_ResetIdempotent ==
    (lastOp.op = "resetForm" /\ lastOp.again) => formState = resetSnap

\* resetForm() twice in a row.
C6_Witness == lastOp.op = "resetForm" /\ lastOp.again /\ lastOp.arg = Undef

\* The node three error trees give at a path: the last tree that has one.
Precedence(fieldErrors, schemaErrors, handlerErrors, path) ==
    IF getIn(handlerErrors, path) # Undef THEN getIn(handlerErrors, path)
    ELSE IF getIn(schemaErrors, path) # Undef THEN getIn(schemaErrors, path)
    ELSE getIn(fieldErrors, path)

\* C7: the merged tree of a run holds, at every path one of the three
\* sources reports, the leaf of the last source (field-level, schema-level,
\* form-level) that reports it, and nothing else, in whatever order the
\* sources settled; a mounted controller's errors is that tree.
C7_MergePrecedence ==
    lastOp.op = "complete" =>
        LET F == lastOp.trees[1]
            S == lastOp.trees[2]
            H == lastOp.trees[3]
        IN /\ LeafPaths(lastOp.combined) = LeafPaths(F) \cup LeafPaths(S) \cup LeafPaths(H)
           /\ \A path \in LeafPaths(lastOp.combined) :
                 getIn(lastOp.combined, path) = Precedence(F, S, H, path)
           /\ didMount => errors = lastOp.combined

\* Field {name: "f"}, schema {name: "s", user: {name: "s"}}, form
\* {name: "m"}, settled form-level first and field-level last.
C7_Witness ==
    /\ lastOp.op = "complete"
    /\ lastOp.trees = << Obj([name |-> Str("f")]),
                         Obj([name |-> Str("s"), user |-> Obj([name |-> Str("s")])]),
                         Obj([name |-> Str("m")]) >>
    /\ lastOp.run.order = <<"handler", "schema", "field">>
    /\ errors = Obj([name |-> Str("m"), user |-> Obj([name |-> Str("s")])])

\* The first failure a list reports for a path.
FirstFailure(inner, path) ==
    inner[CHOOSE i \in 1..Len(inner) :
            /\ inner[i].path = path
            /\ \A j \in 1..(i - 1) : inner[j].path # path]

\* C8: the error tree of a failing schema holds, for every path in its list
\* of failures, the message of the first failure listed for that path.
C8_FirstFailureWins ==
    (lastOp.op = "complete" /\ lastOp.run.schema.st # "off") =>
        LET inner == lastOp.run.schema.inner
        IN \A i \in 1..Len(inner) :
              getIn(lastOp.trees[2], inner[i].path)
                  = Str(FirstFailure(inner, inner[i].path).message)

\* C9: a run calls the validator of every registered field that has one
\* exactly once, with the value at the field's path; what a validator throws
\* or rejects with is the error at its path, the results of the other
\* validators are recorded as well, and without validators the field-level
\* tree is empty.
C9_FieldValidators ==
    /\ lastOp.op = "validateForm" =>
          \A f \in FieldPaths :
             LET mine == {i \in 1..Len(calls) :
                             calls[i].fn = "fieldValidate" /\ calls[i].path = f}
             IN /\ Cardinality(mine) =
                      IF f \in DOMAIN fields /\ fields[f].t # "none" THEN 1 ELSE 0
                /\ \A i \in mine : calls[i].arg = getIn(values, f)
    /\ lastOp.op = "complete" =>
          LET run == lastOp.run
              F == lastOp.trees[1]
          IN /\ \A i \in 1..Len(run.keys) :
                   LET out == run.slots[i].out
                   IN IF out.kind \in {"throw", "reject"}
                      THEN getIn(F, run.keys[i]) = out.val
                      ELSE getIn(F, run.keys[i]) =
                               IF Truthy(out.val) THEN out.val ELSE Undef
             /\ LeafPaths(F) \subseteq {run.keys[i] : i \in 1..Len(run.keys)}

\* One validator rejects, the other returns a message: both are recorded.
C9_Witness ==
    /\ lastOp.op = "complete"
    /\ lastOp.run.keys = PathOrder
    /\ lastOp.run.slots[1].out = Outcome("reject", Message)
    /\ lastOp.run.slots[2].out = Outcome("return", Message)
    /\ lastOp.trees[1] = Obj([name |-> Message, user |-> Obj([name |-> Message])])

\* C10: the form-level validator's outcome gives: on a returned undefined
\* the empty tree, on a returned object that object, on a promise that
\* resolves the empty tree whatever it resolves with, on a promise that
\* rejects the payload of the rejection.
C10_ValidateHandler ==
    (lastOp.op = "complete" /\ lastOp.run.handler.st # "off") =>
        LET out == lastOp.run.handler.out
            H == lastOp.trees[3]
        IN /\ (out.kind = "return" /\ out.val = Undef) => H = EmptyObj
           /\ (out.kind = "return" /\ out.val # Undef) => H = out.val
           /\ out.kind = "resolve" => H = EmptyObj
           /\ out.kind = "reject" => H = out.val

\* A promise that resolves with an error-shaped payload gives no error.
C10_Witness ==
    /\ lastOp.op = "complete"
    /\ lastOp.run.handler.out = Outcome("resolve", Obj([name |-> Str("m")]))
    /\ lastOp.trees[3] = EmptyObj
    /\ lastOp.run.schema.st = "off" /\ lastOp.run.keys = <<>>
    /\ errors = EmptyObj

\* A validation run or a validateField call has been started and has not
\* yet settled.
RunPending ==
    \/ runs # <<>>
    \/ \E i \in 1..Len(fieldRuns) : fieldRuns[i].st = "pending"

\* C11: on a mounted controller isValidating is true in every state in which
\* a validation run or a validateField call is pending, overlapping runs
\* included, and it becomes false only when a run completes.
C11_IsValidating ==
    /\ [](didMount /\ RunPending => isValidating)
    /\ [][(isValidating /\ ~isValidating') =>
              lastOp'.op \in {"complete", "completeField"}]_vars

C13_UnmountedWrites == [][~didMount => formState' = formState]_vars

\* A step has started a validation run.
StartedRun == Len(runs') = Len(runs) + 1

\* C14: a validation run started while another is pending does not cancel
\* it; every run writes errors when it completes, so that errors is the
\* merged result of the run that completed last, whichever was started
\* last.
C14_OverlappingRuns ==
    [][/\ StartedRun => SubSeq(runs', 1, Len(runs)) = runs
       /\ lastOp'.op = "complete" =>
             /\ errors' = lastOp'.combined
             /\ runs' = Remove(runs, lastOp'.index)]_vars

\* Of two overlapping runs on different values the one started last
\* completes first and writes its result; the one started first is still
\* pending.
C14_Witness ==
    /\ lastOp.op = "complete"
    /\ lastOp.index = 2
    /\ Len(runs) = 1
    /\ runs[1].vals # lastOp.run.vals
    /\ errors = lastOp.combined
    /\ lastOp.before # errors

\* C15: setFieldValue(path, v, shouldValidate) writes v at path in values
\* and starts a validation run exactly when validateOnChange and
\* shouldValidate are both true; setValues(vs) makes vs the values and
\* starts a run exactly when validateOnChange is true.  In both the run
\* validates the tree that has just been written.
C15_SetFieldValue ==
    [][/\ lastOp'.op = "setFieldValue" =>
             /\ getIn(values', lastOp'.path) = lastOp'.arg
             /\ StartedRun <=> (props.validateOnChange /\ lastOp'.flag)
       /\ lastOp'.op = "setValues" =>
             /\ values' = lastOp'.arg
             /\ StartedRun <=> props.validateOnChange
       /\ lastOp'.op \in {"setFieldValue", "setValues"} =>
             IF StartedRun
             THEN /\ runs'[Len(runs')].vals = values'
                  /\ SubSeq(runs', 1, Len(runs)) = runs
             ELSE runs' = runs]_vars

\* setFieldValue("name", "a") while a run on the earlier values is pending.
C15_Witness ==
    /\ lastOp.op = "setFieldValue" /\ lastOp.flag /\ props.validateOnChange
    /\ lastOp.arg = Str("a")
    /\ Len(runs) = 2
    /\ runs[2].vals = values /\ getIn(runs[2].vals, <<"name">>) = Str("a")
    /\ getIn(runs[1].vals, <<"name">>) = Str("")

\* C16: setFieldTouched(path, t, shouldValidate) writes t at path in
\* touched and starts a validation run exactly when validateOnBlur and
\* shouldValidate are both true; setTouched and handleBlur (which writes
\* true at the path) start one exactly when validateOnBlur is true.  None
\* of them changes values, and the run validates the current values.
C16_SetFieldTouched ==
    [][/\ lastOp'.op = "setFieldTouched" =>
             /\ getIn(touched', lastOp'.path) = lastOp'.arg
             /\ StartedRun <=> (props.validateOnBlur /\ lastOp'.flag)
       /\ lastOp'.op = "setTouched" =>
             /\ touched' = lastOp'.arg
             /\ StartedRun <=> props.validateOnBlur
       /\ lastOp'.op = "handleBlur" =>
             /\ getIn(touched', lastOp'.path) = Bool(TRUE)
             /\ StartedRun <=> props.validateOnBlur
       /\ lastOp'.op \in {"setFieldTouched", "setTouched", "handleBlur"} =>
             /\ values' = values
             /\ IF StartedRun
                THEN /\ runs'[Len(runs')].vals = values
                     /\ SubSeq(runs', 1, Len(runs)) = runs
                ELSE runs' = runs]_vars

\* setFieldTouched("user.name", true, false) with validateOnBlur enabled
\* starts no run.
C16_Witness ==
    /\ lastOp.op = "setFieldTouched" /\ ~lastOp.flag /\ props.validateOnBlur
    /\ lastOp.path = <<"user", "name">>
    /\ getIn(touched, <<"user", "name">>) = Bool(TRUE)
    /\ runs = <<>> /\ ~isValidating

\* C17: with validateOnChange enabled and nothing interleaved, once the run
\* triggered by setFieldValue(p, v) has settled, errors holds at the path of
\* every field with a validator the message the validator gives for the
\* field's value, and does not have the path when it gives none: a later
\* valid value clears the error of an earlier invalid one.
C17_FieldError ==
    lastOp.op = "complete" =>
        \A p \in DOMAIN fields :
            LET message == ValidatorOutcome(fields[p], getIn(values, p)).val
            IN IF message # Undef
               THEN getIn(errors, p) = message
               ELSE p \notin LeafPaths(errors) /\ getIn(errors, p) = Undef

\* name was empty and in error; the run for the value "a" has cleared it.
C17_Witness ==
    /\ lastOp.op = "complete"
    /\ getIn(lastOp.before, <<"name">>) = Str("required")
    /\ getIn(values, <<"name">>) = Str("a")
    /\ lastOp.run.vals = values
    /\ errors = EmptyObj

\* C18: the registry holds at most one registration per path: after
\* registerField(p, v), also when p was registered before, the one
\* registration at p has the validator v; after unregisterField(p) there is
\* none at p; the registrations at the other paths are as they were.
C18_Registry ==
    [][lastOp'.op \in {"registerField", "unregisterField"} =>
          LET p == lastOp'.path
          IN /\ IF lastOp'.op = "registerField"
                THEN p \in DOMAIN fields' /\ fields'[p] = lastOp'.arg
                ELSE p \notin DOMAIN fields'
             /\ DOMAIN fields' \ {p} = DOMAIN fields \ {p}
             /\ \A q \in DOMAIN fields \ {p} : fields'[q] = fields[q]]_vars

\* name is registered a second time, with another validator, while
\* user.name is registered as well.
C18_Witness ==
    /\ lastOp.op = "registerField" /\ lastOp.again
    /\ lastOp.path = <<"name">>
    /\ fields[<<"name">>] = NameRequired
    /\ DOMAIN fields = {<<"name">>, <<"user", "name">>}
    /\ fields[<<"user", "name">>] = NoValidator

\* The registry entry at the current name of binding b holds its current
\* validator (after the step).
EntryHolds(b) ==
    /\ bindings'[b].name \in DOMAIN fields'
    /\ fields'[bindings'[b].name] = bindings'[b].validate

\* What a step of a binding does to the registry, but for what an update
\* guarantees: the constructor registers name and validator, the unmount
\* unregisters the name, an update that changes the name unregisters the
\* old one.
BindingStep(b) ==
    /\ lastOp'.op = "fieldConstructor" => EntryHolds(b)
    /\ lastOp'.op = "fieldWillUnmount" => bindings[b].name \notin DOMAIN fields'
    /\ (lastOp'.op = "fieldDidUpdate" /\ bindings'[b].name # bindings[b].name) =>
          bindings[b].name \notin DOMAIN fields'

BindingOps == {"fieldConstructor", "fieldDidUpdate", "fieldWillUnmount"}

\* C19: a field binding registers its name and validator when it is created
\* and unregisters its name when it unmounts; an update that changes the
\* name unregisters the old name and registers the new one, one that
\* changes the validator registers the current name again; so after any
\* update the registry entry at the binding's current name holds its
\* current validator.
C19_FieldRegistration ==
    [][lastOp'.op \in BindingOps =>
          LET b == lastOp'.arg.v
          IN /\ BindingStep(b)
             /\ lastOp'.op = "fieldDidUpdate" => EntryHolds(b)]_vars

\* C19 as amended: the same, but the entry at the current name is
\* guaranteed only after an update that changes the name or the validator.
C19_FieldRegistrationOnChange ==
    [][lastOp'.op \in BindingOps =>
          LET b == lastOp'.arg.v
          IN /\ BindingStep(b)
             /\ (lastOp'.op = "fieldDidUpdate" /\ lastOp'.flag) => EntryHolds(b)]_vars

\* The Field bound to name gets another validator while the FastField is
\* bound to user.name: the entry at name is replaced, the other is kept.
C19_Witness ==
    /\ lastOp.op = "fieldDidUpdate" /\ lastOp.flag /\ lastOp.arg = Str("Field")
    /\ bindings["Field"] = Binding(<<"name">>, NameRequired)
    /\ bindings["FastField"] = Binding(<<"user", "name">>, NoValidator)
    /\ fields = (<<"name">> :> NameRequired) @@ (<<"user", "name">> :> NoValidator)

\* C20: in every state dirty is true exactly when values differs from
\* initialValues; isValid is whether errors is empty when dirty is true,
\* and when dirty is false it is isInitialValid (what it returns for the
\* props when it is a function), whatever errors holds.
C20_Computed ==
    /\ dirty <=> values # initialValues
    /\ values # initialValues => (computedIsValid <=> Keys(errors) = {})
    /\ values = initialValues =>
          computedIsValid =
              CASE props.isInitialValid.t = "flag" -> props.isInitialValid.v
                [] props.isInitialValid.key = "validateOnChange" -> props.validateOnChange
                [] props.isInitialValid.key = "validateOnBlur" -> props.validateOnBlur

\* The form is not dirty and errors reports name, yet isValid is true
\* because isInitialValid, a function of the props, says so.
C20_Witness ==
    /\ ~dirty
    /\ errors = Obj([name |-> Str("required")])
    /\ props.isInitialValid = OfProps("validateOnChange") /\ props.validateOnChange
    /\ computedIsValid

\* What parseFloat gives for the texts of the model that start with a
\* number, in hundredths; the other texts are not numbers.
FloatOf == ("1.5" :> 150) @@ ("12a" :> 1200) @@ ("-2" :> -200) @@ (" 3" :> 300)

\* C21: handleChange called with an event writes at the path of the event
\* (the name the handler was obtained for, else the target's name, else its
\* id) the value coerced by the type of the input: for number and range the
\* parsed float of the text, or the empty string when the text is not a
\* number; for checkbox the checked flag; for any other type the text.
C21_HandleChange ==
    [][lastOp'.op = "handleChange" =>
          LET e == lastOp'.event
              t == e.target
              path == IF e.maybePath # <<>> THEN e.maybePath
                      ELSE IF t.name # <<>> THEN t.name ELSE t.id
              coerced ==
                  CASE t.type \in {"number", "range"} ->
                          IF t.value \in DOMAIN FloatOf THEN Num(FloatOf[t.value])
                          ELSE Str("")
                    [] t.type = "checkbox" -> Bool(t.checked)
                    [] OTHER -> Str(t.value)
          IN path # <<>> =>
                /\ getIn(values', path) = coerced
                /\ \A q \in FieldPaths \ {path} : getIn(values', q) = getIn(values, q)]_vars

\* The handler obtained for user.name gets a range event whose target is
\* named name and reads "12a": 12 is written at user.name, name is as it was.
C21_Witness ==
    /\ lastOp.op = "handleChange"
    /\ lastOp.event = Event(<<"user", "name">>,
                            Target("range", <<"name">>, <<"user", "name">>, "12a", FALSE))
    /\ getIn(values, <<"user", "name">>) = Num(1200)
    /\ getIn(values, <<"name">>) = Str("")

\* C22: handleChange(name) and handleBlur(name) return a handler without
\* changing FormState; the handler is the entry of the cache for the name,
\* and an entry of a cache is never replaced or removed, so every call for
\* a name returns the same handler, whatever happens in between.
C22_HandlerCache ==
    [][/\ lastOp'.op \in {"changeHandler", "blurHandler"} =>
             /\ formState' = formState
             /\ runs' = runs
       /\ lastOp'.op = "changeHandler" => lastOp'.index = hcCache'[lastOp'.path]
       /\ lastOp'.op = "blurHandler" => lastOp'.index = hbCache'[lastOp'.path]
       /\ \A n \in DOMAIN hcCache : n \in DOMAIN hcCache' /\ hcCache'[n] = hcCache[n]
       /\ \A n \in DOMAIN hbCache : n \in DOMAIN hbCache' /\ hbCache'[n] = hbCache[n]]_vars

\* The change handler for name is asked for again after three more
\* handlers were made and name was changed: it is the first one made.
C22_Witness ==
    /\ lastOp.op = "changeHandler" /\ lastOp.path = <<"name">>
    /\ lastOp.index = 1 /\ closures = 4
    /\ getIn(values, <<"name">>) = Str("a")
    /\ hcCache[<<"name">>] = 1

\* C23: when the form is rendered with enableReinitialize true and initial
\* values that differ from state.initialValues, initialValues and values
\* become the supplied initial values, errors and touched are emptied,
\* status is cleared, submitCount is 0 and isSubmitting and isValidating are
\* false; rendered with enableReinitialize false, FormState is unchanged
\* whatever initial values are supplied.
C23_Reinitialize ==
    [][lastOp'.op = "getDerivedStateFromProps" =>
          /\ (props'.enableReinitialize /\ props'.initialValues # initialValues) =>
                /\ initialValues' = props'.initialValues
                /\ values' = props'.initialValues
                /\ errors' = EmptyObj /\ touched' = EmptyObj /\ status' = Undef
                /\ submitCount' = 0 /\ ~isSubmitting' /\ ~isValidating'
          /\ ~props'.enableReinitialize => formState' = formState]_vars

\* A form that was submitted with an empty name, and is in error, is
\* rendered with other initial values and enableReinitialize.
C23_Witness ==
    /\ lastOp.op = "getDerivedStateFromProps"
    /\ props.enableReinitialize /\ props.initialValues = NextValues
    /\ lastOp.before = Obj([name |-> Str("required")])
    /\ initialValues = NextValues /\ values = NextValues
    /\ errors = EmptyObj /\ touched = EmptyObj /\ submitCount = 0

\* C24: validateField(p) calls only the validator registered at p, with
\* the value at p, and writes nothing itself but isValidating; when its
\* promise settles on a mounted controller, the error at every path other
\* than p is what it was, values and touched are unchanged, and a result
\* that is not a rejection is the error at p.
C24_ValidateFieldFrame ==
    [][/\ lastOp'.op = "validateField" =>
             LET p == lastOp'.path
             IN /\ calls' = IF p \in DOMAIN fields /\ fields[p].t # "none"
                            THEN <<Call("fieldValidate", p, getIn(values, p))>>
                            ELSE <<>>
                /\ values' = values /\ touched' = touched /\ errors' = errors
       /\ (lastOp'.op = "completeField" /\ didMount) =>
             LET p == lastOp'.fieldRun.field
                 out == lastOp'.fieldRun.out
             IN /\ \A q \in FieldPaths \ {p} : getIn(errors', q) = getIn(errors, q)
                /\ values' = values /\ touched' = touched
                /\ out.kind \in {"return", "resolve"} => getIn(errors', p) = out.val]_vars

\* validateField("name") has settled with "required" while user.name is in
\* error and touched: both errors are there.
C24_Witness ==
    /\ lastOp.op = "completeField" /\ didMount
    /\ lastOp.fieldRun.field = <<"name">>
    /\ lastOp.fieldRun.out = Outcome("resolve", Str("required"))
    /\ lastOp.before = Obj([user |-> Obj([name |-> Str("required")])])
    /\ errors = Obj([name |-> Str("required"),
                     user |-> Obj([name |-> Str("required")])])
    /\ getIn(touched, <<"user", "name">>) = Bool(TRUE)

\* C25: after validateField(p) has settled on a mounted controller with a
\* validator that throws or rejects, or without a validator at p, the error
\* at p is what was thrown or rejected with, isValidating is false, and no
\* rejection is left unhandled.
C25_ValidateFieldRejection ==
    (/\ lastOp.op = "completeField" /\ didMount
     /\ lastOp.fieldRun.out.kind \in {"throw", "reject"}) =>
        /\ getIn(errors, lastOp.fieldRun.field) = lastOp.fieldRun.out.val
        /\ ~isValidating
        /\ calls = <<>>

\* The slots resetForm sets hold what it sets them to, whatever the values.
ResetApplied ==
    /\ errors' = EmptyObj /\ touched' = EmptyObj /\ status' = Undef
    /\ submitCount' = 0 /\ ~isSubmitting' /\ ~isValidating'

\* C26: handleReset() calls a configured onReset exactly once, with the
\* values as they are before any reset; when onReset returns a promise the
\* call resets nothing and the reset is applied by the settlement of the
\* promise; when it returns anything else, and when there is no onReset,
\* the form is reset by the call itself.
C26_HandleReset ==
    [][/\ lastOp'.op = "handleReset" =>
             /\ calls' = IF props.onReset.t = "none" THEN <<>>
                         ELSE <<Call("onReset", <<>>, values)>>
             /\ IF props.onReset.t # "none"
                   /\ props.onReset.out.kind \in {"resolve", "reject"}
                THEN /\ formState' = formState
                     /\ onResets' = Append(onResets, props.onReset.out)
                ELSE /\ ResetApplied
                     /\ values' = initialValues
                     /\ onResets' = onResets
       /\ (lastOp'.op = "settleOnReset" /\ formState' # formState) => ResetApplied]_vars

\* handleReset() on an edited and submitted form whose onReset returns a
\* promise: the callback has been given the edited values and nothing is
\* reset yet.
C26_Witness ==
    /\ lastOp.op = "handleReset"
    /\ onResets = <<Outcome("resolve", Undef)>>
    /\ calls = <<Call("onReset", <<>>, values)>>
    /\ getIn(values, <<"name">>) = Str("a")
    /\ submitCount = 1

\* The calls of a step to the function fn.
CallsTo(fn) == {i \in 1..Len(calls') : calls'[i].fn = fn}

\* C27: the change (blur) handler of a <Field/> calls the controller's
\* handleChange (handleBlur) exactly once, first, with the event; after it,
\* it calls the validator of the field, with the text of the target,
\* exactly when the field has one and validateOnChange (validateOnBlur) is
\* true, and then what the validator returns is written at the name of the
\* field by setFieldError, or its promise is waited for; otherwise no error
\* is written.  A promise that resolves writes undefined at the name, one
\* that rejects writes what it rejected with.
C27_FieldHandlers ==
    [][/\ lastOp'.op \in {"fieldChange", "fieldBlur"} =>
             LET t == lastOp'.event.target
                 b == bindings["Field"]
                 change == lastOp'.op = "fieldChange"
                 handler == IF change THEN "formik.handleChange" ELSE "formik.handleBlur"
                 on == IF change THEN props.validateOnChange ELSE props.validateOnBlur
                 out == ValidatorOutcome(b.validate, Str(t.value))
             IN /\ CallsTo(handler) = {1}
                /\ calls'[1] = Call(handler, t.name, Str(t.value))
                /\ IF change THEN getIn(values', t.name) = Str(t.value)
                   ELSE getIn(touched', t.name) = Bool(TRUE)
                /\ IF b.validate.t # "none" /\ on
                   THEN /\ CallsTo("props.validate") = {Len(calls')}
                        /\ calls'[Len(calls')] = Call("props.validate", b.name, Str(t.value))
                        /\ IF out.kind = "return"
                           THEN getIn(errors', b.name) = out.val /\ thens' = thens
                           ELSE /\ errors' = errors
                                /\ thens' = Append(thens, Then("setFieldError", b.name,
                                                               out, EmptyObj))
                   ELSE /\ CallsTo("props.validate") = {}
                        /\ errors' = errors /\ thens' = thens
       /\ lastOp'.op = "fieldThen" =>
             getIn(errors', lastOp'.path) =
                 IF lastOp'.fieldRun.out.kind = "resolve" THEN Undef
                 ELSE lastOp'.fieldRun.out.val]_vars

\* The promise the validator returned at a blur with an empty text has
\* rejected: "required" is written at name.
C27_Witness ==
    /\ lastOp.op = "fieldThen"
    /\ lastOp.fieldRun.out = Outcome("reject", Str("required"))
    /\ getIn(lastOp.before, <<"name">>) = Undef
    /\ getIn(errors, <<"name">>) = Str("required")
    /\ getIn(touched, <<"name">>) = Bool(TRUE)
    /\ ~props.validateOnChange /\ props.validateOnBlur

\* The value an input of the type of t holds for its text and checked flag.
CoercedValue(t) ==
    CASE t.type \in {"number", "range"} ->
            IF t.value \in DOMAIN FloatOf THEN Num(FloatOf[t.value]) ELSE Str("")
      [] t.type = "checkbox" -> Bool(t.checked)
      [] OTHER -> Str(t.value)

\* C28: a blur of a <FastField/> lifts its local state into the controller:
\* after the state update of the blur, values at the name of the field is
\* the local value and touched at the name is true, whatever validateOnBlur
\* is.  The validator of the field is called on blur exactly when
\* validateOnBlur is true and the field has one; errors at the name is then
\* what the validator gave (the update waits for its promise: undefined
\* when it resolved, what it rejected with otherwise), and is the local
\* error of the field when the validator is not called.
C28_FastFieldBlur ==
    [][/\ lastOp'.op = "fastBlur" =>
             LET b == bindings["FastField"]
                 validates == props.validateOnBlur /\ b.validate.t # "none"
                 out == ValidatorOutcome(b.validate, local.value)
             IN /\ CallsTo("props.validate") = IF validates THEN {1} ELSE {}
                /\ validates => calls'[1] = Call("props.validate", b.name, local.value)
                /\ IF validates /\ out.kind # "return"
                   THEN /\ formState' = formState
                        /\ thens' = Append(thens, Then("fastBlur", b.name, out, EmptyObj))
                   ELSE /\ getIn(values', b.name) = local.value
                        /\ getIn(touched', b.name) = Bool(TRUE)
                        /\ getIn(errors', b.name) =
                              IF validates THEN out.val ELSE local.error
       /\ (lastOp'.op = "fastThen" /\ lastOp'.arg = Str("fastBlur")) =>
             /\ getIn(values', lastOp'.path) = local.value
             /\ getIn(touched', lastOp'.path) = Bool(TRUE)
             /\ getIn(errors', lastOp'.path) =
                   IF lastOp'.fieldRun.out.kind = "resolve" THEN Undef
                   ELSE lastOp'.fieldRun.out.val]_vars

\* With validateOnBlur false, the field whose validator reported the empty
\* text at a change is blurred: the local error "required" is written at
\* name, which had no error, touched at name is true and no validator is
\* called.
C28_Witness ==
    /\ lastOp.op = "fastBlur"
    /\ ~props.validateOnBlur
    /\ bindings["FastField"].validate.t # "none"
    /\ calls = <<>>
    /\ getIn(lastOp.before, <<"name">>) = Undef
    /\ getIn(errors, <<"name">>) = Str("required")
    /\ getIn(values, <<"name">>) = local.value
    /\ getIn(touched, <<"name">>) = Bool(TRUE)

\* C29: a change of a <FastField/> sets its local value to the coerced
\* value of the input and writes neither values nor touched of the
\* controller, at once or when a promise of a validator settles; the
\* validator of the field is called exactly when validateOnChange is true
\* and the field has one, and with validateOnChange false no validator of
\* any kind is called.
C29_FastFieldChange ==
    [][/\ lastOp'.op = "fastChange" =>
             LET b == bindings["FastField"]
             IN /\ local'.value = CoercedValue(lastOp'.event.target)
                /\ values' = values /\ touched' = touched
                /\ CallsTo("props.validate") =
                      IF props.validateOnChange /\ b.validate.t # "none"
                      THEN {1} ELSE {}
                /\ ~props.validateOnChange =>
                      /\ calls' = <<>> /\ thens' = thens
                      /\ errors' = errors /\ local'.error = local.error
       /\ (lastOp'.op = "fastThen"
             /\ lastOp'.arg \in {Str("fastChange"), Str("fastFormChange")}) =>
             /\ values' = values /\ touched' = touched
             /\ local'.value = local.value]_vars

\* The number input of the field reads "12a" with validateOnChange true and
\* a validator of the field: the local value is 12, the validator was
\* called with the text, and the controller still holds the empty name and
\* no touched flag.
C29_Witness ==
    /\ lastOp.op = "fastChange"
    /\ props.validateOnChange
    /\ local.value = Num(1200)
    /\ calls = <<Call("props.validate", <<"name">>, Str("12a"))>>
    /\ getIn(values, <<"name">>) = Str("")
    /\ touched = EmptyObj

\* A tree of errors without what it holds at path; no errors at all
\* (undefined) count as the empty tree.
ExceptForKey(tree, path) ==
    setIn(IF isObject(tree) THEN tree ELSE EmptyObj, path, Undef)

\* The outcome of the comparison of a resulting tree of errors with the
\* errors of the controller, the name of the field left out.
DiffLifted(tree, name) ==
    IF ExceptForKey(tree, name) = ExceptForKey(errors, name)
    THEN errors' = errors /\ local'.error = getIn(tree, name)
    ELSE errors' = tree

\* C30: a change of a <FastField/> with validateOnChange true, no validator
\* of the field and a form-level validator calls the validator with the
\* values in which the name of the field holds the new value; the tree of
\* errors it gives (returned, or the payload of its rejected promise) is
\* compared with the errors of the controller, the name of the field left
\* out: when they are equal only the local error of the field is updated
\* and the errors of the controller stay, when they differ the whole tree
\* replaces the errors of the controller.
C30_FastFieldFormLevel ==
    [][/\ (/\ lastOp'.op = "fastChange"
           /\ props.validateOnChange
           /\ bindings["FastField"].validate.t = "none"
           /\ props.validate.t # "none") =>
             LET name == bindings["FastField"].name
                 tree == setIn(values, name, CoercedValue(lastOp'.event.target))
                 out == FormValidatorOutcome(props.validate, tree)
             IN /\ calls' = <<Call("validate", <<>>, tree)>>
                /\ out.kind = "return" => DiffLifted(out.val, name)
       /\ (/\ lastOp'.op = "fastThen"
           /\ lastOp'.arg = Str("fastFormChange")
           /\ lastOp'.fieldRun.out.kind = "reject") =>
             DiffLifted(lastOp'.fieldRun.out.val, lastOp'.path)]_vars

\* The part of C30 about a validator that returns its tree.
C30_Returned ==
    [][(/\ lastOp'.op = "fastChange"
        /\ props.validateOnChange
        /\ bindings["FastField"].validate.t = "none"
        /\ props.validate.t # "none") =>
             LET name == bindings["FastField"].name
                 tree == setIn(values, name, CoercedValue(lastOp'.event.target))
                 out == FormValidatorOutcome(props.validate, tree)
             IN /\ calls' = <<Call("validate", <<>>, tree)>>
                /\ out.kind = "return" => DiffLifted(out.val, name)]_vars

\* The returned tree with an error at user.name has replaced the errors of
\* the controller, which were empty.
C30_ReturnedWitness ==
    /\ lastOp.op = "fastChange"
    /\ lastOp.before = EmptyObj
    /\ errors = NameAndUserError
    /\ props.validate.out.kind = "return"

\* The segments each spelled name stands for.
SegmentsOf ==
    ("a.b[0].c" :> <<"a", "b", "0", "c">>) @@ ("a[b][0].c" :> <<"a", "b", "0", "c">>)
    @@ ("user[superPowers][0]" :> <<"user", "superPowers", "0">>)
    @@ ("user.superPowers[1]" :> <<"user", "superPowers", "1">>)
    @@ ("user[superPowers].1" :> <<"user", "superPowers", "1">>)

\* C31: dotted and bracketed spellings of the same path address the same
\* node of the values, so a <Field/> bound by any of the spellings is
\* given, when it is rendered, the value at the segments its name stands
\* for, the same value as under every other spelling of them.
C31_PathSpellings ==
    [][lastOp'.op = "getFieldBag" =>
          LET n == calls'[1].arg.v
          IN /\ lastOp'.arg = getIn(values, SegmentsOf[n])
             /\ \A m \in Spellings :
                   SegmentsOf[m] = SegmentsOf[n] => getIn(values, pathOf(m)) = lastOp'.arg]_vars

\* The part of C31 about the reads alone: every spelling addresses the node
\* at its segments, so two spellings of the same segments read the same.
C31_Accessor ==
    \A n \in Spellings : getIn(values, pathOf(n)) = getIn(values, SegmentsOf[n])

\* "a" has been written at user.superPowers[1] and is what
\* user[superPowers].1 reads, next to "Surging".
C31_AccessorWitness ==
    /\ getIn(values, pathOf("user[superPowers].1")) = Str("a")
    /\ getIn(values, pathOf("user[superPowers][0]")) = Str("Surging")
    /\ getIn(values, pathOf("a[b][0].c")) = Str("x")

\* C32: a change or a blur event whose target has neither a name nor an id,
\* sent to a handler that is not bound to a name, leaves the state as it
\* was: values, touched, errors and isValidating are unchanged and no
\* validation run is started.
C32_MissingIdentifier ==
    [][(lastOp'.op \in {"handleChange", "handleBlur"} /\ lastOp'.path = <<>>) =>
          /\ formState' = formState
          /\ runs' = runs
          /\ calls' = <<>>]_vars

\* The part of C32 about change events.
C32_Change ==
    [][(lastOp'.op = "handleChange" /\ lastOp'.path = <<>>) =>
          /\ formState' = formState
          /\ runs' = runs
          /\ calls' = <<>>]_vars

\* A change event without name and id has been ignored with
\* validateOnChange true, after name was touched.
C32_ChangeWitness ==
    /\ lastOp.op = "handleChange"
    /\ lastOp.path = <<>>
    /\ lastOp.event.target.value = "a"
    /\ props.validateOnChange
    /\ getIn(touched, <<"name">>) = Bool(TRUE)
    /\ values = InitialValues

\* C33: setErrors, setStatus and setSubmitting overwrite their own slot of
\* the state, setFieldError overwrites the error at its path and keeps the
\* errors at the other paths; each leaves every other slot as it was and
\* starts no validation run, whatever validateOnChange and validateOnBlur
\* are.
C33_PlainSetters ==
    [][lastOp'.op \in {"setErrors", "setStatus", "setSubmitting", "setFieldError"} =>
          /\ CASE lastOp'.op = "setErrors" -> errors' = lastOp'.arg
               [] lastOp'.op = "setStatus" -> status' = lastOp'.arg
               [] lastOp'.op = "setSubmitting" -> Bool(isSubmitting') = lastOp'.arg
               [] lastOp'.op = "setFieldError" ->
                     /\ getIn(errors', lastOp'.path) = lastOp'.arg
                     /\ \A q \in FieldPaths \ {lastOp'.path} :
                           getIn(errors', q) = getIn(errors, q)
          /\ lastOp'.op \notin {"setErrors", "setFieldError"} => errors' = errors
          /\ lastOp'.op # "setStatus" => status' = status
          /\ lastOp'.op # "setSubmitting" => isSubmitting' = isSubmitting
          /\ values' = values /\ initialValues' = initialValues
          /\ touched' = touched /\ isValidating' = isValidating
          /\ submitCount' = submitCount
          /\ runs' = runs /\ calls' = <<>>]_vars

\* setFieldError has written "m" at name while a validation run was
\* pending and user.name had the error "n", with validateOnChange and
\* validateOnBlur true: user.name keeps its error and the run is still the
\* only one.
C33_Witness ==
    /\ lastOp.op = "setFieldError"
    /\ lastOp.path = <<"name">>
    /\ getIn(errors, <<"name">>) = Str("m")
    /\ getIn(errors, <<"user", "name">>) = Str("n")
    /\ props.validateOnChange /\ props.validateOnBlur
    /\ Len(runs) = 1 /\ isValidating

\* C34: the validation run handleChange starts with validateOnChange true
\* validates the values of the controller as they are after the change;
\* when two changes are handled in one batch, the run the second one
\* starts validates values that hold both changes.
C34_ChangeRunValues ==
    [][(/\ lastOp'.op \in {"handleChange", "handleChangeBatch"}
        /\ lastOp'.path # <<>>
        /\ props.validateOnChange) =>
          /\ Len(runs') > Len(runs)
          /\ runs'[Len(runs')].vals = values']_vars

\* The part of C34 about a change that is handled alone.
C34_SingleChange ==
    [][(/\ lastOp'.op = "handleChange"
        /\ lastOp'.path # <<>>
        /\ props.validateOnChange) =>
          /\ Len(runs') = Len(runs) + 1
          /\ runs'[Len(runs')].vals = values']_vars

\* A single change has written "a" at user.name and started a run on the
\* values that hold it.
C34_SingleChangeWitness ==
    /\ lastOp.op = "handleChange"
    /\ lastOp.path = <<"user", "name">>
    /\ props.validateOnChange
    /\ Len(runs) = 1
    /\ getIn(runs[1].vals, <<"user", "name">>) = Str("a")
    /\ runs[1].vals = values

\* C35 as stated: the values passed to onSubmit by a submitForm() call are
\* the values its validation run validated, also when values were changed
\* while the run was pending.
C35_SubmitsValidated ==
    (lastOp.op = "complete" /\ lastOp.run.submit /\ calls # <<>>) =>
        calls = <<Call("onSubmit", <<>>, lastOp.run.vals)>>

\* C35, amended: the values passed to onSubmit by a submitForm() call are
\* the values of the controller when the validation run of the call
\* completes; they are the values the run validated when no change of
\* values was applied in between, and the changed, unvalidated values
\* otherwise.
C35_SubmitsCurrent ==
    [][(lastOp'.op = "complete" /\ lastOp'.run.submit /\ IsEmptyObj(lastOp'.combined)) =>
          /\ calls' = <<Call("onSubmit", <<>>, values)>>
          /\ values' = values]_vars

\* The run of a submit validated the name "a" and completed after the name
\* was emptied: onSubmit is given the empty name.
C35_Witness ==
    /\ lastOp.op = "complete" /\ lastOp.run.submit
    /\ getIn(lastOp.run.vals, <<"name">>) = Str("a")
    /\ calls = <<Call("onSubmit", <<>>, values)>>
    /\ getIn(values, <<"name">>) = Str("")

\* The merged result of the validators of the overlap specification for
\* the values vals.
ExpectedErrors(vals) ==
    IF getIn(vals, <<"name">>) \in {Undef, Str("")}
    THEN Obj([name |-> Str("required"), user |-> Obj([name |-> Str("n")])])
    ELSE Obj([user |-> Obj([name |-> Str("n")])])

\* C36 as stated: when every validation run that was started has settled
\* and the last change of values started a run, errors is the merged
\* result of the validators for the current values, in whatever order the
\* runs settled.
C36_ErrorsOfCurrentValues ==
    (didMount /\ runs = <<>> /\ lastOp.op = "complete") =>
        errors = ExpectedErrors(values)

\* C36, amended: when every validation run that was started has settled,
\* errors is the merged result of the validators for the values the run
\* that completed last was started with; that is the result for the
\* current values when the runs complete in the order they were started,
\* and the result for older values when the run of an earlier change
\* completes last.
C36_ErrorsOfLastCompleted ==
    (didMount /\ runs = <<>> /\ lastOp.op = "complete") =>
        /\ errors = ExpectedErrors(lastOp.run.vals)
        /\ lastOp.run.vals = values => errors = ExpectedErrors(values)

\* The run for the empty name completed after the run for the name "a":
\* no run is pending, name is "a" and errors says that name is required.
C36_Witness ==
    /\ didMount /\ runs = <<>> /\ lastOp.op = "complete"
    /\ getIn(values, <<"name">>) = Str("a")
    /\ getIn(lastOp.run.vals, <<"name">>) = Str("")
    /\ getIn(errors, <<"name">>) = Str("required")
    /\ lastOp.before = UserError

\* C37 as stated: a validation run that was started before a reset and
\* completes after it does not write its result into the reset state.  In
\* the stale-run specification a run for the name "a" that completes while
\* name is empty was started before the last reset, and no change of
\* values followed that reset.
C37_StaleRunDropped ==
    [][(/\ lastOp'.op = "complete"
        /\ getIn(lastOp'.run.vals, <<"name">>) = Str("a")
        /\ getIn(values, <<"name">>) = Str("")) =>
          /\ errors' = errors
          /\ isValidating' = isValidating]_vars

\* C37, amended: resetForm and a reset caused by enableReinitialize leave
\* errors empty and isValidating false and cancel no pending run; on a
\* mounted controller the completion of every run, also of one started
\* before the reset, writes the merged result of the run into errors and
\* sets isValidating false, and the completion of a validateField call
\* that did not reject writes its result at the path.
C37_StaleRunWrites ==
    [][/\ (\/ lastOp'.op = "resetForm"
           \/ lastOp'.op = "getDerivedStateFromProps" /\ initialValues' # initialValues) =>
             /\ errors' = EmptyObj /\ ~isValidating'
             /\ runs' = runs /\ fieldRuns' = fieldRuns
       /\ (lastOp'.op = "complete" /\ didMount) =>
             /\ errors' = ExpectedErrors(lastOp'.run.vals)
             /\ ~isValidating'
       /\ (lastOp'.op = "completeField" /\ didMount
             /\ lastOp'.fieldRun.out.kind \notin {"throw", "reject"}) =>
             /\ getIn(errors', lastOp'.fieldRun.field) = lastOp'.fieldRun.out.val
             /\ ~isValidating']_vars

\* The run for the name "a" has completed after the form was reset: name
\* is empty again, nothing is touched, no run is pending, and errors,
\* which the reset had emptied, holds the result of that run.
C37_Witness ==
    /\ lastOp.op = "complete"
    /\ getIn(lastOp.run.vals, <<"name">>) = Str("a")
    /\ values = InitialValues /\ touched = EmptyObj
    /\ runs = <<>> /\ fieldRuns = <<>>
    /\ lastOp.before = EmptyObj
    /\ errors = UserError

\* C38: on a controller that stays mounted, when every validator call
\* settles, every state in which isValidating is true is followed by a
\* state in which it is false, for the runs of runValidations and of
\* validateField alike.
C38_ValidatingEnds == isValidating ~> ~isValidating

\* The part of C38 about the runs of runValidations.
C38_RunValidationsEnds == (isValidating /\ runs # <<>>) ~> ~isValidating

\* A run of runValidations whose validator rejected has completed:
\* isValidating is false and the error is written.
C38_RunValidationsWitness ==
    /\ lastOp.op = "complete"
    /\ ~isValidating
    /\ runs = <<>> /\ fieldRuns = <<>>
    /\ getIn(errors, <<"name">>) = Str("required")


-----------------------------------------------------------------------------
(* The resync specification: one <FastField/> at name, with or without a   *)
(* validator of its own, is changed and blurred while the form is reset,   *)
(* to the initial values or to a tree that holds another name.  The field  *)
(* is rendered again after every state update before the next event        *)
(* reaches it.                                                             *)

ResyncValidators == {NoValidator, Required(Outcome("return", Str("required")))}

ResyncTargets == {Target("text", <<"name">>, <<>>, text, FALSE) : text \in {"", "a"}}

InitResync ==
    \E onChange \in BOOLEAN :
        InitWith(Props(NoValidator, NoSchema, onChange, FALSE), <<>>)

NextResync ==
    \/ componentDidMount
    \/ \E v \in ResyncValidators : FieldConstructor("FastField", <<"name">>, v)
    \/ FieldDidUpdate("FastField", bindings["FastField"].name,
                      bindings["FastField"].validate)
    \/ Rendered /\ \E t \in ResyncTargets : FastFieldHandleChange(t)
    \/ Rendered /\ FastFieldHandleBlur
    \/ \E next \in {Undef, NextValues} : resetForm(next)

SpecResync == InitResync /\ [][NextResync]_vars

\* The update of the <FastField/> that follows a resetForm.
UpdateAfterReset ==
    /\ lastOp.op = "resetForm"
    /\ lastOp'.op = "fieldDidUpdate" /\ lastOp'.arg = Str("FastField")

\* C39: after resetForm() and the update of the <FastField/> that follows,
\* the local value of the field is the value of the controller at its name
\* and its local error is the error of the controller at its name, whatever
\* the field held locally before the reset.
C39_ResyncAfterReset ==
    [][UpdateAfterReset =>
          LET name == bindings["FastField"].name
          IN /\ local'.value = getIn(values', name)
             /\ local'.error = getIn(errors', name)]_vars

\* C39, as the update reconciles: the local value is the value of the
\* controller at the name when the reset changed that value from what the
\* field read at its render before, or when the field held no change of
\* its own; a local value that differs from the render before stays as it
\* is when the reset left the value of the controller at the name as it
\* was.  The same holds of the local error and the error of the controller.
C39_ResyncOnChange ==
    [][UpdateAfterReset =>
          LET name == bindings["FastField"].name
              value == getIn(values', name)
              error == getIn(errors', name)
          IN /\ local'.value = IF \/ ~isEqual(value, rendered.value)
                                  \/ local.value = rendered.value
                               THEN value ELSE local.value
             /\ local'.error = IF \/ ~isEqual(error, rendered.error)
                                  \/ local.error = rendered.error
                               THEN error ELSE local.error]_vars

\* The form is reset to the tree that holds "a" at name while the field
\* shows the empty text it rendered: the update that follows brings the
\* local value to "a".
C39_Witness ==
    /\ lastOp.op = "fieldDidUpdate" /\ lastOp.again
    /\ values = NextValues /\ touched = EmptyObj
    /\ local.value = Str("a")
    /\ local = FastFieldState(<<"name">>)

\* The field holds a change that was not blurred when the form is reset to
\* a tree with the same name: the update leaves the local value, which is
\* not the value of the controller.
C39_StaleWitness ==
    /\ lastOp.op = "fieldDidUpdate" /\ lastOp.again
    /\ values = NextValues
    /\ local.value = Str("")

\* The step leaves the form reset to the initial values it had.
ResetToInitialValues ==
    /\ values' = initialValues /\ initialValues' = initialValues
    /\ errors' = EmptyObj /\ touched' = EmptyObj /\ status' = Undef
    /\ ~isSubmitting' /\ ~isValidating' /\ submitCount' = 0

\* C40: when the promise onReset returned settles, resolved with whatever
\* value or rejected, the form is reset and its values are the initial
\* values of the controller: what the promise settled with is never the
\* values of the form.
C40_DeferredReset ==
    [][lastOp'.op = "settleOnReset" => ResetToInitialValues]_vars

\* The part of C40 the settlement keeps: a promise that resolves with
\* nothing resets the form to the initial values.
C40_ResolvedWithNothing ==
    [][(lastOp'.op = "settleOnReset" /\ ~Rejected(props.onReset.out)
            /\ ~Truthy(props.onReset.out.val)) => ResetToInitialValues]_vars

\* The promise of onReset resolved with nothing after name had been set to
\* "a" and the form submitted: the values are the initial ones again.
C40_ResolvedWithNothingWitness ==
    /\ lastOp.op = "settleOnReset" /\ lastOp.arg = Undef
    /\ props.onReset = Const(Outcome("resolve", Undef))
    /\ values = initialValues
    /\ submitCount = 0
    /\ onResets = <<>>

=============================================================================
